---------------------------- MODULE Spec2Model ----------------------------
(***************************************************************************)
(* A model of the ath_dsp filter engine: the coefficient mathematics, the  *)
(* one-pole filters (Naive and TPT), the TPT state-variable filter, the    *)
(* Biquad in its four topologies, the BiquadCascade, and the FIR filter    *)
(* with its windowed-sinc kernel generator.                                *)
(*                                                                         *)
(* Arithmetic.  The code is templated on a floating-point type T.  A value *)
(* of T is modelled as an exact rational <<n, d>> in lowest terms with     *)
(* d > 0, extended by the three IEEE-754 specials with d = 0:              *)
(* <<0,0>> is NaN, <<1,0>> is +infinity and <<-1,0>> is -infinity.  The    *)
(* four operations are exact on finite values (no rounding), and follow    *)
(* IEEE-754 on the specials (x/0, 0/0, inf-inf, 0*inf).  The sign of zero  *)
(* is not modelled.  On the integer and dyadic values the runs draw        *)
(* their samples and coefficients from, the exact result is the one the    *)
(* floating-point unit returns.                                            *)
(***************************************************************************)
EXTENDS Integers, Sequences, FiniteSets, TLC

-----------------------------------------------------------------------------
(* Values of the template type T *)

Abs(n) == IF n < 0 THEN -n ELSE n

RECURSIVE GCD(_, _)
GCD(a, b) == IF b = 0 THEN a ELSE GCD(b, a % b)

LCM(a, b) == (a \div GCD(a, b)) * b

NaN == <<0, 0>>
PosInf == <<1, 0>>
NegInf == <<-1, 0>>

\* the rational n/d (d # 0) in lowest terms with a positive denominator
Q(n, d) ==
    LET g == GCD(Abs(n), Abs(d))
        s == IF d < 0 THEN -1 ELSE 1
    IN  <<s * (n \div g), s * (d \div g)>>

\* the integer n as a value of T
I(n) == <<n, 1>>

IsNaN(a) == a[2] = 0 /\ a[1] = 0
IsInf(a) == a[2] = 0 /\ a[1] # 0
IsFinite(a) == a[2] # 0
Sgn(a) == IF a[1] > 0 THEN 1 ELSE IF a[1] < 0 THEN -1 ELSE 0

FNeg(a) == <<-a[1], a[2]>>

FAdd(a, b) ==
    IF IsNaN(a) \/ IsNaN(b) THEN NaN
    ELSE IF IsInf(a) /\ IsInf(b) THEN (IF a = b THEN a ELSE NaN)
    ELSE IF IsInf(a) THEN a
    ELSE IF IsInf(b) THEN b
    ELSE LET l == LCM(a[2], b[2])
         IN  Q(a[1] * (l \div a[2]) + b[1] * (l \div b[2]), l)

FSub(a, b) == FAdd(a, FNeg(b))

FMul(a, b) ==
    IF IsNaN(a) \/ IsNaN(b) THEN NaN
    ELSE IF IsInf(a) \/ IsInf(b)
         THEN (IF Sgn(a) * Sgn(b) = 0 THEN NaN ELSE <<Sgn(a) * Sgn(b), 0>>)
    ELSE LET g1 == GCD(Abs(a[1]), b[2])
             g2 == GCD(Abs(b[1]), a[2])
         IN  <<(a[1] \div g1) * (b[1] \div g2), (a[2] \div g2) * (b[2] \div g1)>>

FDiv(a, b) ==
    IF IsNaN(a) \/ IsNaN(b) THEN NaN
    ELSE IF IsInf(b) THEN (IF IsInf(a) THEN NaN ELSE I(0))
    ELSE IF b[1] = 0
         THEN (IF Sgn(a) = 0 THEN NaN ELSE <<Sgn(a), 0>>)
    ELSE IF IsInf(a) THEN <<Sgn(a) * Sgn(b), 0>>
    ELSE FMul(a, IF b[1] > 0 THEN <<b[2], b[1]>> ELSE <<-b[2], -b[1]>>)

\* comparisons: every comparison with NaN is false
FLt(a, b) ==
    /\ ~IsNaN(a) /\ ~IsNaN(b)
    /\ IF IsInf(a) \/ IsInf(b)
       THEN (IF IsInf(a) /\ IsInf(b) THEN a[1] < b[1]
             ELSE IF IsInf(a) THEN a[1] < 0 ELSE b[1] > 0)
       ELSE LET l == LCM(a[2], b[2])
            IN  a[1] * (l \div a[2]) < b[1] * (l \div b[2])

FLe(a, b) == ~IsNaN(a) /\ ~IsNaN(b) /\ (a = b \/ FLt(a, b))

FAbs(a) == <<Abs(a[1]), a[2]>>

-----------------------------------------------------------------------------
(* Biquad: coefficients, the four topologies, process and reset *)

Topologies == {"DirectForm1", "DirectForm2", "TransposedDirectForm1", "TransposedDirectForm2"}

\* DigitalBiquadCoefficients with its default member initialisers
DigitalBiquadCoefficients ==
    [b0 |-> I(1), b1 |-> I(0), b2 |-> I(0), a0 |-> I(1), a1 |-> I(0), a2 |-> I(0)]

\* AnalogBiquadCoefficients with its default member initialisers
AnalogBiquadCoefficients ==
    [b0 |-> I(1), b1 |-> I(0), b2 |-> I(0), a0 |-> I(1), a1 |-> I(0), a2 |-> I(0)]

\* bilinear with the divisor replaced by the a0 of the prototype
bilinear_ByPrototypeA0(in, sr) ==
    LET k == FMul(sr, I(2))
        k2 == FMul(k, k)
        a0 == in.a0
    IN  [b0 |-> FDiv(FAdd(FAdd(in.b0, FMul(in.b1, k)), FMul(in.b2, k2)), a0),
         b1 |-> FDiv(FSub(FMul(in.b0, I(2)), FMul(FMul(in.b2, I(2)), k2)), a0),
         b2 |-> FDiv(FAdd(FSub(in.b0, FMul(in.b1, k)), FMul(in.b2, k2)), a0),
         a0 |-> I(1),
         a1 |-> FDiv(FSub(FMul(in.a0, I(2)), FMul(FMul(in.a2, I(2)), k2)), a0),
         a2 |-> FDiv(FAdd(FSub(in.a0, FMul(in.a1, k)), FMul(in.a2, k2)), a0)]

\* bilinear with the two terms of b1 added
bilinear_B1Sum(in, sr) ==
    LET k == FMul(sr, I(2))
        k2 == FMul(k, k)
        a0 == FAdd(FAdd(in.a0, FMul(in.a1, k)), FMul(in.a2, k2))
    IN  [b0 |-> FDiv(FAdd(FAdd(in.b0, FMul(in.b1, k)), FMul(in.b2, k2)), a0),
         b1 |-> FDiv(FAdd(FMul(in.b0, I(2)), FMul(FMul(in.b2, I(2)), k2)), a0),
         b2 |-> FDiv(FAdd(FSub(in.b0, FMul(in.b1, k)), FMul(in.b2, k2)), a0),
         a0 |-> I(1),
         a1 |-> FDiv(FSub(FMul(in.a0, I(2)), FMul(FMul(in.a2, I(2)), k2)), a0),
         a2 |-> FDiv(FAdd(FSub(in.a0, FMul(in.a1, k)), FMul(in.a2, k2)), a0)]

\* bilinear(in, sr): the local a0 is the divisor of all five quotients, the
\* returned a0 is the literal 1.0
bilinear(in, sr) ==
    LET k == FMul(sr, I(2))
        k2 == FMul(k, k)
        a0 == FAdd(FAdd(in.a0, FMul(in.a1, k)), FMul(in.a2, k2))
    IN  [b0 |-> FDiv(FAdd(FAdd(in.b0, FMul(in.b1, k)), FMul(in.b2, k2)), a0),
         b1 |-> FDiv(FSub(FMul(in.b0, I(2)), FMul(FMul(in.b2, I(2)), k2)), a0),
         b2 |-> FDiv(FAdd(FSub(in.b0, FMul(in.b1, k)), FMul(in.b2, k2)), a0),
         a0 |-> I(1),
         a1 |-> FDiv(FSub(FMul(in.a0, I(2)), FMul(FMul(in.a2, I(2)), k2)), a0),
         a2 |-> FDiv(FAdd(FSub(in.a0, FMul(in.a1, k)), FMul(in.a2, k2)), a0)]

\* the state members a topology selects (std::conditional_t), all zero
BiquadZeroState(Topology) ==
    IF Topology = "DirectForm1"
    THEN [x1 |-> I(0), x2 |-> I(0), y1 |-> I(0), y2 |-> I(0)]
    ELSE IF Topology = "TransposedDirectForm1"
    THEN [s0 |-> I(0), s1 |-> I(0), s2 |-> I(0), s3 |-> I(0)]
    ELSE [v1 |-> I(0), v2 |-> I(0)]

\* Biquad::reset: y and the topology's registers to zero, coeffs kept
BiquadReset(b) ==
    [b EXCEPT !.y = I(0), !.st = BiquadZeroState(b.top)]

\* Biquad::Biquad(): the default coefficients, then reset()
BiquadNew(Topology) ==
    BiquadReset([top |-> Topology, coeffs |-> DigitalBiquadCoefficients,
                 y |-> I(0), st |-> BiquadZeroState(Topology)])

\* Biquad::setCoefficients
BiquadSetCoefficients(b, newCoeffs) == [b EXCEPT !.coeffs = newCoeffs]

\* a DF1 that normalises by a0: y = (b0 x + b1 x1 + b2 x2 - a1 y1 - a2 y2) / a0
ProcessDF1_Normalised(b, x) ==
    LET c == b.coeffs
        s == b.st
        y == FDiv(FSub(FSub(FAdd(FAdd(FMul(c.b0, x), FMul(c.b1, s.x1)),
                                 FMul(c.b2, s.x2)),
                            FMul(c.a1, s.y1)), FMul(c.a2, s.y2)), c.a0)
    IN  [b EXCEPT !.y = y, !.st = [x1 |-> x, x2 |-> s.x1, y1 |-> y, y2 |-> s.y1]]

ProcessDF1(b, x) ==
    LET c == b.coeffs
        s == b.st
        y == FSub(FSub(FAdd(FAdd(FMul(c.b0, x), FMul(c.b1, s.x1)), FMul(c.b2, s.x2)),
                       FMul(c.a1, s.y1)), FMul(c.a2, s.y2))
    IN  [b EXCEPT !.y = y, !.st = [x1 |-> x, x2 |-> s.x1, y1 |-> y, y2 |-> s.y1]]

ProcessDF2(b, x) ==
    LET c == b.coeffs
        s == b.st
        w == FSub(FSub(x, FMul(c.a1, s.v1)), FMul(c.a2, s.v2))
        y == FAdd(FAdd(FMul(c.b0, w), FMul(c.b1, s.v1)), FMul(c.b2, s.v2))
    IN  [b EXCEPT !.y = y, !.st = [v1 |-> w, v2 |-> s.v1]]

ProcessTDF1(b, x) ==
    LET c == b.coeffs
        s == b.st
        y == FAdd(FAdd(s.s0, s.s2), FMul(c.b0, x))
    IN  [b EXCEPT !.y = y,
                  !.st = [s0 |-> FAdd(s.s1, FMul(c.b1, x)),
                          s1 |-> FMul(c.b2, x),
                          s2 |-> FSub(s.s3, FMul(c.a1, y)),
                          s3 |-> FMul(FNeg(c.a2), y)]]

\* a TDF2 whose v1 update forgets the second delay v2
ProcessTDF2_NoV2(b, x) ==
    LET c == b.coeffs
        s == b.st
        y == FAdd(FMul(c.b0, x), s.v1)
    IN  [b EXCEPT !.y = y,
                  !.st = [v1 |-> FSub(FMul(c.b1, x), FMul(c.a1, y)),
                          v2 |-> FSub(FMul(c.b2, x), FMul(c.a2, y))]]

ProcessTDF2(b, x) ==
    LET c == b.coeffs
        s == b.st
        y == FAdd(FMul(c.b0, x), s.v1)
    IN  [b EXCEPT !.y = y,
                  !.st = [v1 |-> FAdd(FSub(FMul(c.b1, x), FMul(c.a1, y)), s.v2),
                          v2 |-> FSub(FMul(c.b2, x), FMul(c.a2, y))]]

\* Biquad::process: the instance after the call; the value returned is its y
BiquadProcess(b, x) ==
    IF b.top = "DirectForm1" THEN ProcessDF1(b, x)
    ELSE IF b.top = "DirectForm2" THEN ProcessDF2(b, x)
    ELSE IF b.top = "TransposedDirectForm1" THEN ProcessTDF1(b, x)
    ELSE ProcessTDF2(b, x)

\* Biquad::last
BiquadLast(b) == b.y

-----------------------------------------------------------------------------
(* Coefficient mathematics *)

\* Math::fpi = pi<float>: the float nearest to pi, 13176795 * 2^-22
fpi == <<13176795, 4194304>>

\* a normFrequencyToG that returns the pi-scaled argument itself: return g
normFrequencyToG_Raw(freq) == FMul(freq, fpi)

\* normFrequencyToG: g = freq * fpi; return g / (g + 1)
normFrequencyToG(freq) ==
    LET g == FMul(freq, fpi)
    IN  FDiv(g, FAdd(g, I(1)))

\* frequencyToG(freq, sampleT)
frequencyToG(freq, sampleT) == normFrequencyToG(FMul(freq, sampleT))

\* timeToG(time, sampleT): freq = 0.5 * sampleT / time
timeToG(time, sampleT) ==
    LET freq == FDiv(FMul(Q(1, 2), sampleT), time)
    IN  normFrequencyToG(freq)

\* Context(sampleRate): the sample rate and the sample period T = 1/SR
Context(sampleRate) == [SR |-> sampleRate, T |-> FDiv(I(1), sampleRate)]

-----------------------------------------------------------------------------
(* One-pole filters *)

\* a processLP that assigns the increment instead of adding it: y = (x - y) * g
NaiveProcessLP_Assign(x, y, g) ==
    LET y1 == FMul(FSub(x, y), g)
    IN  [out |-> y1, y |-> y1]

\* Naive::processLP(x, y&, g): y += (x - y) * g; return y
NaiveProcessLP(x, y, g) ==
    LET y1 == FAdd(y, FMul(FSub(x, y), g))
    IN  [out |-> y1, y |-> y1]

\* a processLP whose integrator update adds the increment twice over:
\* z1 = 2 * (v + v) + z1
TptProcessLP_Overshoot(x, z1, G) ==
    LET v == FMul(FSub(x, z1), G)
        y == FAdd(v, z1)
    IN  [out |-> y, z1 |-> FAdd(FMul(I(2), FAdd(v, v)), z1)]

\* TPT::processLP(x, z1&, G): v = (x - z1) * G; y = v + z1; z1 = v + y
TptProcessLP(x, z1, G) ==
    LET v == FMul(FSub(x, z1), G)
        y == FAdd(v, z1)
    IN  [out |-> y, z1 |-> FAdd(v, y)]

\* a processHP that adds the low-pass output to the input
TptProcessHP_Sum(x, z1, G) ==
    LET lp == TptProcessLP(x, z1, G)
    IN  [out |-> FAdd(x, lp.out), z1 |-> lp.z1]

\* TPT::processHP(x, z1&, G): x - processLP(x, z1, G)
TptProcessHP(x, z1, G) ==
    LET lp == TptProcessLP(x, z1, G)
    IN  [out |-> FSub(x, lp.out), z1 |-> lp.z1]

\* Naive::LowPass1
NaiveLowPass1New(c0) == [c |-> c0, g |-> I(0), y |-> I(0), frequency |-> I(100)]

NaiveSetCutoffFrequency(f, freq) ==
    [f EXCEPT !.frequency = freq, !.g = frequencyToG(freq, f.c.T)]

NaiveSetContext(f, context) ==
    NaiveSetCutoffFrequency([f EXCEPT !.c = context], f.frequency)

NaiveProcess(f, x) == [f EXCEPT !.y = NaiveProcessLP(x, f.y, f.g).out]

NaiveReset(f) == [f EXCEPT !.y = I(0)]

\* Naive::LowPass1::last
NaiveLast(f) == f.y

\* TPT::LowPass1
TptLowPass1New(c0) ==
    [c |-> c0, G |-> I(0), z1 |-> I(0), y |-> I(0), frequency |-> I(100)]

\* TPT::HighPass1: frequency has no initialiser, freq0 is its indeterminate value
TptHighPass1New(c0, freq0) ==
    [c |-> c0, G |-> I(0), z1 |-> I(0), y |-> I(0), frequency |-> freq0]

\* TPT::LowPass1::setCutoffFrequency and TPT::HighPass1::setCutoffFrequency
TptSetCutoffFrequency(f, freq) ==
    [f EXCEPT !.frequency = freq, !.G = frequencyToG(freq, f.c.T)]

TptSetContext(f, context) ==
    TptSetCutoffFrequency([f EXCEPT !.c = context], f.frequency)

TptLowPassProcess(f, x) ==
    LET r == TptProcessLP(x, f.z1, f.G)
    IN  [f EXCEPT !.y = r.out, !.z1 = r.z1]

TptHighPassProcess(f, x) ==
    LET r == TptProcessHP(x, f.z1, f.G)
    IN  [f EXCEPT !.y = r.out, !.z1 = r.z1]

\* a reset that clears the coefficient along with the integrator
TptReset_ClearsG(f) == [f EXCEPT !.z1 = I(0), !.G = I(0)]

\* TPT::LowPass1::reset and TPT::HighPass1::reset
TptReset(f) == [f EXCEPT !.z1 = I(0)]

\* TPT::LowPass1::last
TptLast(f) == f.y

-----------------------------------------------------------------------------
(* TPT state-variable filter *)

\* Math::lerp(a, b, t) = a + (b - a) * t
lerp(a, b, t) == FAdd(a, FMul(FSub(b, a), t))

\* Math::min, Math::max, Math::clamp
min(a, b) == IF FLt(a, b) THEN a ELSE b

max(a, b) == IF FLt(b, a) THEN a ELSE b

clamp(x, a, b) == min(max(x, a), b)

\* static_cast<int>(x) of a finite x inside the range of int: the fraction is
\* dropped, towards zero
trunc(x) == IF x[1] >= 0 THEN x[1] \div x[2] ELSE -((-x[1]) \div x[2])

\* frac: x - static_cast<int>(x); negative for a negative x
frac(x) == FSub(x, I(trunc(x)))

\* foldArgument: x = frac(x + half) - half;
\* return max(min(x, half - x), -half - x)
foldArgument(x) ==
    LET half == Q(1, 2)
        x1 == FSub(frac(FAdd(x, half)), half)
    IN  max(min(x1, FSub(half, x1)), FSub(FNeg(half), x1))

StateVariableFilterNew(c0) ==
    [c |-> c0, G |-> I(0), R |-> I(1), g1 |-> I(2), d |-> I(0),
     s1 |-> I(0), s2 |-> I(0), hp |-> I(0), bp |-> I(0), lp |-> I(0),
     frequency |-> I(100), resonance |-> I(0)]

\* a processInternal whose high-pass ignores the second integrator
SvfProcessInternal_NoS2(f, x) ==
    LET hp == FMul(FSub(x, FMul(f.g1, f.s1)), f.d)
        v1 == FMul(f.G, hp)
        bp == FAdd(v1, f.s1)
        s1 == FAdd(bp, v1)
        v2 == FMul(f.G, bp)
        lp == FAdd(v2, f.s2)
        s2 == FAdd(lp, v2)
    IN  [f EXCEPT !.hp = hp, !.bp = bp, !.lp = lp, !.s1 = s1, !.s2 = s2]

\* a processInternal that leaves the second integrator where it was
SvfProcessInternal_FrozenS2(f, x) ==
    LET hp == FMul(FSub(FSub(x, FMul(f.g1, f.s1)), f.s2), f.d)
        v1 == FMul(f.G, hp)
        bp == FAdd(v1, f.s1)
        lp == FAdd(FMul(f.G, bp), f.s2)
    IN  [f EXCEPT !.hp = hp, !.bp = bp, !.lp = lp, !.s1 = FAdd(bp, v1)]

\* an updateCoefficients that recomputes g1 and leaves d as it was
SvfUpdateCoefficients_StaleD(f) ==
    [f EXCEPT !.g1 = FAdd(FMul(I(2), f.R), f.G)]

\* updateCoefficients: g1 = 2R + G; d = 1 / (1 + g1 * G)
SvfUpdateCoefficients(f) ==
    LET g1 == FAdd(FMul(I(2), f.R), f.G)
    IN  [f EXCEPT !.g1 = g1, !.d = FDiv(I(1), FAdd(I(1), FMul(g1, f.G)))]

SvfSetCutoffFrequency(f, freq) ==
    SvfUpdateCoefficients([f EXCEPT !.frequency = freq,
                                    !.G = frequencyToG(freq, f.c.T)])

\* a setResonance that stores r as given: resonance = r
SvfSetResonance_Unclamped(f, r) ==
    SvfUpdateCoefficients([f EXCEPT !.resonance = r,
                                    !.R = lerp(I(1), Q(1, 10), r)])

\* setResonance: max_resonance = 0.1
SvfSetResonance(f, r) ==
    LET res == clamp(r, I(0), I(1))
    IN  SvfUpdateCoefficients([f EXCEPT !.resonance = res,
                                        !.R = lerp(I(1), Q(1, 10), res)])

SvfSetContext(f, context) ==
    LET f1 == SvfSetCutoffFrequency([f EXCEPT !.c = context], f.frequency)
    IN  SvfSetResonance(f1, f1.resonance)

SvfProcessInternal(f, x) ==
    LET hp == FMul(FSub(FSub(x, FMul(f.g1, f.s1)), f.s2), f.d)
        v1 == FMul(f.G, hp)
        bp == FAdd(v1, f.s1)
        s1 == FAdd(bp, v1)
        v2 == FMul(f.G, bp)
        lp == FAdd(v2, f.s2)
        s2 == FAdd(lp, v2)
    IN  [f EXCEPT !.hp = hp, !.bp = bp, !.lp = lp, !.s1 = s1, !.s2 = s2]

SvfReset(f) == [f EXCEPT !.s1 = I(0), !.s2 = I(0)]

\* the const accessors of the outputs of the last pass
lastHighPass(f) == f.hp
lastBandPass(f) == f.bp
lastLowPass(f) == f.lp

-----------------------------------------------------------------------------
(* BiquadCascade<T, N, Topology>: N biquads of one topology in series *)

BiquadCascadeNew(N, Topology) ==
    [y |-> I(0), biquads |-> [i \in 1..N |-> BiquadNew(Topology)]]

\* a cascade whose loop feeds the input x to every section (y never reassigned)
CascadeLoop_Parallel(biquads, k, x) ==
    [i \in 1..Len(biquads) |-> IF i <= k THEN BiquadProcess(biquads[i], x) ELSE biquads[i]]

\* the biquads after the loop has run over sections 1..k, fed x
RECURSIVE CascadeLoop(_, _, _)
CascadeLoop(biquads, k, x) ==
    IF k = 0 THEN biquads
    ELSE LET done == CascadeLoop(biquads, k - 1, x)
             yin == IF k = 1 THEN x ELSE done[k - 1].y
         IN  [done EXCEPT ![k] = BiquadProcess(done[k], yin)]

\* BiquadCascade::process: y = x; for each biquad: y = biquad.process(y)
CascadeProcess(cs, x) ==
    LET after == CascadeLoop(cs.biquads, Len(cs.biquads), x)
    IN  [y |-> IF Len(after) = 0 THEN x ELSE after[Len(after)].y,
         biquads |-> after]

-----------------------------------------------------------------------------
(* Fir::Filter: coefficients, the doubled history buffer, the ring index *)

\* a default-constructed Filter: two empty vectors, circularBufferState = 0
FirNew == [coefficients |-> <<>>, buffer |-> <<>>, circularBufferState |-> 0]

\* std::vector::resize(n): the first elements kept, new ones value-initialised
Resize(v, n) == [i \in 1..n |-> IF i <= Len(v) THEN v[i] ELSE I(0)]

\* Filter::reset: std::fill(buffer.begin(), buffer.end(), 0.0)
FirReset(f) == [f EXCEPT !.buffer = [i \in 1..Len(f.buffer) |-> I(0)]]

\* Filter::setCoefficients: circularBufferState is left as it is
FirSetCoefficients(f, newCoefficients) ==
    FirReset([f EXCEPT !.coefficients = newCoefficients,
                       !.buffer = Resize(f.buffer, Len(newCoefficients) * 2)])

\* buffer.data()[idx] = x, idx counted from 0; a store past the end of the
\* vector does not change the vector
FirStore(buffer, idx, x) ==
    IF idx >= 0 /\ idx < Len(buffer) THEN [buffer EXCEPT ![idx + 1] = x] ELSE buffer

\* buffer.data()[idx]; a load past the end of the vector is undefined and
\* yields the indeterminate value junk
FirLoad(buffer, idx, junk) ==
    IF idx >= 0 /\ idx < Len(buffer) THEN buffer[idx + 1] ELSE junk

\* a loop that reads the history in the wrong direction, bufferData[+i]
RECURSIVE FirSum_Forward(_, _, _, _, _)
FirSum_Forward(coefficients, buffer, base, junk, k) ==
    IF k = 0 THEN I(0)
    ELSE FAdd(FirSum_Forward(coefficients, buffer, base, junk, k - 1),
              FMul(coefficients[k],
                   FirLoad(buffer, base - Len(coefficients) + (k - 1), junk)))

\* the loop of process: sum += coefficientsData[i] * bufferData[-i], i in [0, k)
RECURSIVE FirSum(_, _, _, _, _)
FirSum(coefficients, buffer, base, junk, k) ==
    IF k = 0 THEN I(0)
    ELSE FAdd(FirSum(coefficients, buffer, base, junk, k - 1),
              FMul(coefficients[k], FirLoad(buffer, base - (k - 1), junk)))

\* a process that writes x to one copy of the history only, bufferData[0]
FirProcess_OneStore(f, x, junk) ==
    LET n == Len(f.coefficients)
        base == f.circularBufferState + n
        buffer == FirStore(f.buffer, base, x)
    IN  [f |-> [f EXCEPT !.buffer = buffer,
                         !.circularBufferState = (f.circularBufferState + 1) % n],
         out |-> FirSum(f.coefficients, buffer, base, junk, n)]

\* Filter::process(x) for n >= 1 taps: the filter after the call and the sum
\* returned; junk is what a load outside the buffer yields
FirProcess(f, x, junk) ==
    LET n == Len(f.coefficients)
        base == f.circularBufferState + n
        buffer == FirStore(FirStore(f.buffer, base, x), base - n, x)
    IN  [f |-> [f EXCEPT !.buffer = buffer,
                         !.circularBufferState = (f.circularBufferState + 1) % n],
         out |-> FirSum(f.coefficients, buffer, base, junk, n)]

\* every store and load of the next process call lies inside the buffer
FirInBounds(f) ==
    f.circularBufferState + Len(f.coefficients) < Len(f.buffer)

-----------------------------------------------------------------------------
(* Linear smoothers *)

\* Math::abs: (x >= 0) ? x : -x
abs(x) == IF FLe(I(0), x) THEN x ELSE FNeg(x)

\* the members of ConstantRateLinearSmoother with their initialisers
ConstantRateLinearSmootherNew ==
    [c |-> Context(I(48000)), targetValue |-> I(0), currentValue |-> I(0),
     time |-> I(0), delta |-> I(0)]

RateReset(s) == [s EXCEPT !.currentValue = I(0), !.targetValue = I(0)]

\* ConstantRateLinearSmoother::setTime: delta = c.T / time
RateSetTime(s, newTime) ==
    [s EXCEPT !.time = newTime, !.delta = FDiv(s.c.T, newTime)]

RateSetContext(s, context) == RateSetTime([s EXCEPT !.c = context], s.time)

RateSetTargetValue(s, value) == [s EXCEPT !.targetValue = value]

\* process() that takes half of the clamped step
Process_HalfStep(s) ==
    LET diff == clamp(FSub(s.targetValue, s.currentValue), FNeg(s.delta), s.delta)
    IN  [s EXCEPT !.currentValue = FAdd(s.currentValue, FMul(diff, Q(1, 2)))]

\* process() with the step taken whole: currentValue += diff, unclamped
Process_Unclamped(s) ==
    LET diff == FSub(s.targetValue, s.currentValue)
    IN  [s EXCEPT !.currentValue = FAdd(s.currentValue, diff)]

\* process(): the step towards the target, clamped to [-delta, delta]; the
\* derived class inherits it
Process(s) ==
    LET diff == clamp(FSub(s.targetValue, s.currentValue), FNeg(s.delta), s.delta)
    IN  [s EXCEPT !.currentValue = FAdd(s.currentValue, diff)]

\* process(value) of the base class: setTargetValue, then process()
RateProcessValue(s, value) == Process(RateSetTargetValue(s, value))

\* ConstantTimeLinearSmoother::calculateDelta: delta = c.T / time * |target - current|
CalculateDelta(s) ==
    LET diff == abs(FSub(s.targetValue, s.currentValue))
    IN  [s EXCEPT !.delta = FMul(FDiv(s.c.T, s.time), diff)]

\* the overrides of ConstantTimeLinearSmoother
TimeSetTime(s, newTime) == CalculateDelta([s EXCEPT !.time = newTime])

TimeSetTargetValue(s, value) == CalculateDelta([s EXCEPT !.targetValue = value])

\* setContext is inherited; its call of setTime is virtual
TimeSetContext(s, context) == TimeSetTime([s EXCEPT !.c = context], s.time)

\* process(value) is inherited; its call of setTargetValue is virtual
TimeProcessValue(s, value) == Process(TimeSetTargetValue(s, value))

-----------------------------------------------------------------------------
(* LinearCongruentialGenerator                                              *)
(* An int is kept as its 32-bit pattern <<hi, lo>>, two halves of 16 bits:  *)
(* the value is hi * 2^16 + lo, less 2^32 when hi >= 2^15.                   *)

Half == 65536

\* the pattern of n, 0 <= n < 2^31
Word(n) == <<n \div Half, n % Half>>

\* the pattern of -n, 0 < n < 2^31
WordNeg(n) == <<(Half - 1) - ((n - 1) \div Half), (Half - 1) - ((n - 1) % Half)>>

\* the 32-bit product of two halves, as <<hi, lo>>
Mul16(p, q) ==
    LET u == (p \div 256) * q
        v == (p % 256) * q
        t == (u % 256) * 256 + v
    IN  <<(u \div 256) + (t \div Half), t % Half>>

\* x * y and x + y modulo 2^32
MulWord(x, y) ==
    LET ll == Mul16(x[2], y[2])
    IN  <<(ll[1] + Mul16(x[1], y[2])[2] + Mul16(x[2], y[1])[2]) % Half, ll[2]>>

AddWord(x, y) ==
    LET lo == x[2] + y[2]
    IN  <<(x[1] + y[1] + (lo \div Half)) % Half, lo % Half>>

\* the members with their initialisers: seed = 0, a = 1664525, c = 1013904223
LinearCongruentialGeneratorNew ==
    [seed |-> Word(0), a |-> Word(1664525), c |-> Word(1013904223), trapped |-> FALSE]

setSeed(g, newSeed) == [g EXCEPT !.seed = newSeed]

\* a getInt whose increment is even: seed = seed * a + (c + 1)
getInt_EvenIncrement(g) ==
    [g EXCEPT !.seed = AddWord(AddWord(MulWord(g.seed, g.a), g.c), Word(1))]

\* getInt: seed = seed * a + c in wrap-around arithmetic; the value returned is
\* the new seed
getInt(g) == [g EXCEPT !.seed = AddWord(MulWord(g.seed, g.a), g.c)]

\* seed * a + c leaves the range of int (a, c > 0 below 2^31): the signed
\* seed s is above (INT_MAX - c) / a or below -(INT_MAX + c + 1) / a
IntMax == 2147483647
SignedOverflow(g) ==
    LET a == g.a[1] * Half + g.a[2]
        c == g.c[1] * Half + g.c[2]
        up == (IntMax - c) \div a
        down == (IntMax \div a) + ((c + 1) \div a)
                    + (((IntMax % a) + ((c + 1) % a)) \div a)
        s == g.seed
    IN  IF s[1] < Half \div 2
        THEN s[1] > 0 \/ s[2] > up
        ELSE s[1] < Half - 1 \/ Half - s[2] > down

-----------------------------------------------------------------------------
(* State *)

VARIABLES
    dut,      \* the object the client drives in this run
    bank,     \* four Biquads, one per topology, given the same calls
    bankH,    \* history: calls since the last reset of the bank
    casc,     \* a BiquadCascade<T, 2> with sections [A, B]
    solo,     \* two standalone Biquads A and B of the cascade's topology
    cascH,    \* history: what the last process of casc and of solo returned
    fir,      \* a Fir::Filter
    firH,     \* history: the samples fed and the last value returned
    naive,    \* a Naive::LowPass1
    tptlp,    \* a TPT::LowPass1
    tpthp,    \* a TPT::HighPass1
    opH,      \* history of the three one-pole filters, given the same calls
    svf,      \* a TPT::StateVariableFilter
    svfH,     \* history: calls since the last reset and the value last returned
    ramp,     \* a naive one-pole state driven by process(1.0), as an enclosure
    calc,     \* the last coefficient computed by normFrequencyToG, with its inputs
    kernel,   \* the last call of WindowedSincLowpass: its inputs and its result
    bil,      \* the last call of bilinear: its inputs and its result
    rateSmoother,  \* a ConstantRateLinearSmoother
    rateH,         \* history: the value before the last process call
    timeSmoother,  \* a ConstantTimeLinearSmoother
    timeH,         \* history: the transition under way and its steps so far
    twins,         \* per topology, two Biquads whose coefficients differ in a0 only
    twinsH,        \* history: process calls since the last reset of the twins
    lcg,           \* a LinearCongruentialGenerator
    lcgH,          \* history: the seed set and the getInt calls made since
    fold           \* the last call of Math::foldArgument: argument and result

bankVars == <<bank, bankH>>
cascVars == <<casc, solo, cascH>>
firVars == <<fir, firH>>
opVars == <<naive, tptlp, tpthp, opH>>
svfVars == <<svf, svfH>>
fnVars == <<ramp, calc, kernel, bil>>
rateVars == <<rateSmoother, rateH>>
timeVars == <<timeSmoother, timeH>>
twinVars == <<twins, twinsH>>
lcgVars == <<lcg, lcgH>>
foldVars == <<fold>>
vars == <<dut, bankVars, cascVars, firVars, opVars, svfVars, fnVars, rateVars, timeVars, twinVars, lcgVars, foldVars>>

notBank == <<dut, cascVars, firVars, opVars, svfVars, fnVars, rateVars, timeVars, twinVars, lcgVars, foldVars>>
notCasc == <<dut, bankVars, firVars, opVars, svfVars, fnVars, rateVars, timeVars, twinVars, lcgVars, foldVars>>
notFir == <<dut, bankVars, cascVars, opVars, svfVars, fnVars, rateVars, timeVars, twinVars, lcgVars, foldVars>>
notOp == <<dut, bankVars, cascVars, firVars, svfVars, fnVars, rateVars, timeVars, twinVars, lcgVars, foldVars>>
notSvf == <<dut, bankVars, cascVars, firVars, opVars, fnVars, rateVars, timeVars, twinVars, lcgVars, foldVars>>
notRamp == <<dut, bankVars, cascVars, firVars, opVars, svfVars, calc, kernel, bil, rateVars, timeVars, twinVars, lcgVars, foldVars>>
notCalc == <<dut, bankVars, cascVars, firVars, opVars, svfVars, ramp, kernel, bil, rateVars, timeVars, twinVars, lcgVars, foldVars>>
notKernel == <<dut, bankVars, cascVars, firVars, opVars, svfVars, ramp, calc, bil, rateVars, timeVars, twinVars, lcgVars, foldVars>>
notBil == <<dut, bankVars, cascVars, firVars, opVars, svfVars, ramp, calc, kernel, rateVars, timeVars, twinVars, lcgVars, foldVars>>
notRate == <<dut, bankVars, cascVars, firVars, opVars, svfVars, fnVars, timeVars, twinVars, lcgVars, foldVars>>
notTime == <<dut, bankVars, cascVars, firVars, opVars, svfVars, fnVars, rateVars, twinVars, lcgVars, foldVars>>
notTwins == <<dut, bankVars, cascVars, firVars, opVars, svfVars, fnVars, rateVars, timeVars, lcgVars, foldVars>>
notLcg == <<dut, bankVars, cascVars, firVars, opVars, svfVars, fnVars, rateVars, timeVars, twinVars, foldVars>>
notFold == <<dut, bankVars, cascVars, firVars, opVars, svfVars, fnVars, rateVars, timeVars, twinVars, lcgVars>>

\* bounds of the runs
BankMaxSteps == 3
CascMaxSteps == 3
FirMaxSteps == 5
FirMaxTaps == 4
FirMaxSets == 2
SvfMaxSteps == 2
OpMaxSteps == 3

\* the samples and coefficient values the runs draw from
Samples == {I(1), I(-2)}
Zero == I(0)

BankCoefSets ==
    {DigitalBiquadCoefficients} \cup
    [b0 : {I(2)}, b1 : {I(-1)}, b2 : {I(1)},
     a0 : {I(1)}, a1 : {I(1), Q(1, 2)}, a2 : {I(-1), Q(1, 4)}]

BankInit ==
    /\ bank = [t \in Topologies |-> BiquadNew(t)]
    /\ bankH = [n |-> 0, retuned |-> FALSE, quiet |-> TRUE]

FoldInit == fold = [done |-> FALSE, x |-> I(0), y |-> I(0)]

LcgInit ==
    /\ lcg = LinearCongruentialGeneratorNew
    /\ lcgH = [n |-> 0, seed0 |-> Word(0)]

TwinsInit ==
    /\ twins = [t \in Topologies |-> [one |-> BiquadNew(t), other |-> BiquadNew(t)]]
    /\ twinsH = [n |-> 0]

CascInit ==
    /\ casc = BiquadCascadeNew(2, "TransposedDirectForm2")
    /\ solo = [i \in 1..2 |-> BiquadNew("TransposedDirectForm2")]
    /\ cascH = [n |-> 0, cascOut |-> I(0), soloOut |-> I(0)]

FirInit ==
    /\ fir = FirNew
    /\ firH = [n |-> 0, sets |-> 0, xs |-> <<>>, out |-> I(0), quiet |-> TRUE,
               wasReset |-> FALSE, oob |-> FALSE]

\* Sample rates of 100*fpi Hz and 200*fpi Hz with cutoffs of 50, 100 (the
\* default) and 150 Hz, all below half the sample rate: freq * T * fpi is then
\* 1/4, 1/2, 3/4, 1 or 3/2 and the coefficient 1/5, 1/3, 3/7, 1/2 or 3/5.
SampleRates == {FMul(I(100), fpi), FMul(I(200), fpi)}

Contexts == {Context(sr) : sr \in SampleRates}

Frequencies == {I(150)}

\* what a read of an indeterminate frequency may yield
IndeterminateReads == {I(50), I(150)}

OpSamples == {I(0), I(1)}

OpHistory0 ==
    [n |-> 0, quiet |-> TRUE, tweak |-> FALSE,
     set |-> FALSE, cut |-> I(100), ctx |-> Context(I(1)),
     x |-> I(0), px |-> I(0), py |-> I(0), pG |-> I(0), ppz1 |-> I(0),
     pre |-> [y |-> I(0), z1 |-> I(0), hz1 |-> I(0)],
     g |-> [naive |-> I(0), tptlp |-> I(0), tpthp |-> I(0)],
     rec |-> I(0), rec2 |-> I(0),
     run |-> 0, e0 |-> [y |-> I(0), z1 |-> I(0), hz1 |-> I(0)]]

\* The settling run: process(1.0) called SettleCalls times on a naive one-pole
\* state that starts at 0, with g = timeToG(0.01, 1/48000).  The state is kept
\* as an enclosure [lo, hi] in units of 1/YScale and g as an enclosure in units
\* of 1/GScale; every step rounds outwards and widens by one more unit, which
\* covers the rounding of the three floating-point operations of processLP.
SettleCalls == 480
CalcMaxRate == 24
KernelMaxTaps == 7
YScale == 2 ^ 19
GScale == 2 ^ 20

\* floor(r * 2^k / d) for 0 <= r < d, by binary long division
RECURSIVE FloorScaled(_, _, _, _)
FloorScaled(r, d, k, q) ==
    IF k = 0 THEN q
    ELSE IF 2 * r >= d THEN FloorScaled(2 * r - d, d, k - 1, 2 * q + 1)
                       ELSE FloorScaled(2 * r, d, k - 1, 2 * q)

\* the enclosure of a coefficient 0 < g < 1
GEnclosure(g) ==
    LET lo == FloorScaled(g[1], g[2], 20, 0)
    IN  [lo |-> lo, hi |-> lo + 1]

CeilDiv(a, b) == -((-a) \div b)

\* a processLP that assigns the increment instead of adding it, on enclosures
ProcessLPEnclosure_Assign(y, g) ==
    [lo |-> ((YScale - y.hi) * g.lo) \div GScale - 1,
     hi |-> CeilDiv((YScale - y.lo) * g.hi, GScale) + 1]

\* Naive::processLP(1.0, y, g) on enclosures: y + (1 - y) * g grows with y and,
\* while y <= 1, with g
ProcessLPEnclosure(y, g) ==
    [lo |-> y.lo + ((YScale - y.lo) * g.lo) \div GScale - 1,
     hi |-> y.hi + CeilDiv((YScale - y.hi) * g.hi, GScale) + 1]

FnInit ==
    /\ ramp = [n |-> 0, y |-> [lo |-> 0, hi |-> 0],
               g |-> GEnclosure(timeToG(Q(1, 100), Q(1, 48000)))]
    /\ calc = [done |-> FALSE, f |-> I(0), sr |-> I(0), g |-> I(0)]
    /\ kernel = [done |-> FALSE, cutoff |-> I(0), duration |-> I(0), sr |-> I(0),
                 thrown |-> FALSE, taps |-> <<>>]
    /\ bil = [done |-> FALSE, in |-> AnalogBiquadCoefficients, sr |-> I(0),
              out |-> DigitalBiquadCoefficients]

\* HighPass1::frequency has no initialiser: it holds no determinate value until
\* setCutoffFrequency stores one
Indeterminate == <<0, -1>>

\* c0 is the default-constructed Context the filters hold
OpInit(c0) ==
    /\ naive = NaiveLowPass1New(c0)
    /\ tptlp = TptLowPass1New(c0)
    /\ tpthp = TptHighPass1New(c0, Indeterminate)
    /\ opH = [OpHistory0 EXCEPT !.ctx = c0]

SvfHistory0 ==
    [n |-> 0, calls |-> 0, quiet |-> TRUE, out |-> I(0), updated |-> FALSE,
     set |-> FALSE, cut |-> I(100), ctx |-> Context(I(1)),
     asked |-> FALSE, r |-> I(0),
     x |-> I(0), which |-> "lp", touched |-> FALSE, pair |-> FALSE,
     pre |-> [s1 |-> I(0), s2 |-> I(0)], from |-> [s1 |-> I(0), s2 |-> I(0)],
     first |-> [hp |-> I(0), bp |-> I(0), lp |-> I(0)]]

\* a setter ends the pair of calls being followed
SvfTouched(h) ==
    [h EXCEPT !.updated = TRUE, !.asked = FALSE, !.r = SvfHistory0.r,
              !.touched = (h.n > 0), !.pair = FALSE, !.x = SvfHistory0.x,
              !.which = SvfHistory0.which, !.pre = SvfHistory0.pre,
              !.from = SvfHistory0.from, !.first = SvfHistory0.first]

SvfInit(c0) ==
    /\ svf = StateVariableFilterNew(c0)
    /\ svfH = [SvfHistory0 EXCEPT !.ctx = c0]

\* k counts the process() calls made since the target, the rate or the value
\* was last set, from is the value they started at
RateHistory0 == [n |-> 0, stepped |-> FALSE, prev |-> I(0), k |-> 0, from |-> I(0)]

RateInit ==
    /\ rateSmoother = ConstantRateLinearSmootherNew
    /\ rateH = RateHistory0

\* mode "set": setTargetValue(v) and then k calls of process(); mode "each": k
\* calls of process(v) in a row; from is the value the transition started at
TimeHistory0 == [n |-> 0, mode |-> "none", v |-> I(0), from |-> I(0), k |-> 0]

\* the derived class adds no member
TimeInit ==
    /\ timeSmoother = ConstantRateLinearSmootherNew
    /\ timeH = TimeHistory0

\* every object as its constructor leaves it; the default constructor of Context
\* is not part of the sources, c0 is any of the modelled contexts. A run drives
\* one object and leaves the others as constructed: where the filters that
\* hold a context are not driven, one c0 stands for all
Constructed ==
    /\ BankInit /\ CascInit /\ FirInit
    /\ \E c0 \in Contexts :
          /\ dut \notin {"onepole", "svf"} => c0 = Context(FMul(I(100), fpi))
          /\ OpInit(c0) /\ SvfInit(c0)
    /\ FnInit
    /\ RateInit /\ TimeInit
    /\ TwinsInit
    /\ LcgInit
    /\ FoldInit

-----------------------------------------------------------------------------
(* The bank of four topologies *)

BankSetCoefficients(c) ==
    /\ dut = "bank"
    /\ bank' = [t \in Topologies |-> BiquadSetCoefficients(bank[t], c)]
    /\ bankH' = [bankH EXCEPT
                   !.retuned = @ \/ (bankH.n > 0 /\ c # bank["DirectForm1"].coeffs)]
    /\ UNCHANGED notBank

BankProcess(x) ==
    /\ dut = "bank"
    /\ bankH.n < BankMaxSteps
    /\ bank' = [t \in Topologies |-> BiquadProcess(bank[t], x)]
    /\ bankH' = [bankH EXCEPT !.n = @ + 1, !.quiet = @ /\ x = Zero]
    /\ UNCHANGED notBank

BankReset ==
    /\ dut = "bank"
    /\ bank' = [t \in Topologies |-> BiquadReset(bank[t])]
    /\ bankH' = [n |-> 0, retuned |-> FALSE, quiet |-> TRUE]
    /\ UNCHANGED notBank

NextBank ==
    \/ \E c \in BankCoefSets : BankSetCoefficients(c)
    \/ \E x \in Samples \cup {Zero} : BankProcess(x)
    \/ BankReset

InitBank == dut = "bank" /\ Constructed

SpecBank == InitBank /\ [][NextBank]_vars

\* C1: with one coefficient set (a0 = 1) since the reset, the four topologies,
\* fed the same samples, hold the same output y after every process call.
C1_TopologiesAgree ==
    (dut = "bank" /\ ~bankH.retuned) =>
        \A t \in Topologies : bank[t].y = bank["DirectForm1"].y

\* three samples through non-trivial feedback and feed-forward coefficients,
\* with a non-zero output
C1_Witness ==
    /\ dut = "bank" /\ ~bankH.retuned /\ bankH.n = 3
    /\ bank["DirectForm1"].coeffs.a1 = Q(1, 2)
    /\ bank["DirectForm1"].coeffs.a2 = Q(1, 4)
    /\ bank["TransposedDirectForm1"].y # Zero
    /\ bank["TransposedDirectForm1"].y # bank["TransposedDirectForm1"].coeffs.b0

-----------------------------------------------------------------------------
(* The cascade [A, B] beside two standalone biquads A and B *)

CascCoefSets ==
    [b0 : {I(2)}, b1 : {I(-1)}, b2 : {I(1)},
     a0 : {I(1)}, a1 : {Q(1, 2)}, a2 : {I(-1), Q(1, 4)}]

\* casc.biquads[i].setCoefficients(c), and the same on the standalone biquad i
CascSetCoefficients(i, c) ==
    /\ dut = "cascade"
    /\ casc' = [casc EXCEPT !.biquads[i] = BiquadSetCoefficients(@, c)]
    /\ solo' = [solo EXCEPT ![i] = BiquadSetCoefficients(@, c)]
    /\ UNCHANGED <<cascH, notCasc>>

\* casc.process(x), and B.process(A.process(x)) on the standalone biquads
CascProcess(x) ==
    /\ dut = "cascade"
    /\ cascH.n < CascMaxSteps
    /\ LET a == BiquadProcess(solo[1], x)
           b == BiquadProcess(solo[2], BiquadLast(a))
           cs == CascadeProcess(casc, x)
       IN  /\ casc' = cs
           /\ solo' = <<a, b>>
           /\ cascH' = [n |-> cascH.n + 1, cascOut |-> cs.y, soloOut |-> BiquadLast(b)]
    /\ UNCHANGED notCasc

\* reset() on every section of the cascade and on both standalone biquads
CascReset ==
    /\ dut = "cascade"
    /\ casc' = [casc EXCEPT !.biquads = [i \in 1..2 |-> BiquadReset(casc.biquads[i])]]
    /\ solo' = [i \in 1..2 |-> BiquadReset(solo[i])]
    /\ cascH' = [cascH EXCEPT !.n = 0]
    /\ UNCHANGED notCasc

NextCasc ==
    \/ \E i \in 1..2, c \in CascCoefSets : CascSetCoefficients(i, c)
    \/ \E x \in Samples : CascProcess(x)
    \/ CascReset

InitCasc == dut = "cascade" /\ Constructed

SpecCasc == InitCasc /\ [][NextCasc]_vars

\* C2: the cascade [A, B] returns at every sample what B.process(A.process(x))
\* returns on standalone biquads with the same coefficients and starting state;
\* each section holds the state of its standalone twin (stage 1's output was
\* stage 2's input) and process returns the last stage's output.
C2_CascadeIsComposition ==
    dut = "cascade" =>
        /\ cascH.cascOut = cascH.soloOut
        /\ \A i \in 1..2 : casc.biquads[i] = solo[i]
        /\ cascH.n > 0 => casc.y = casc.biquads[2].y

\* two different non-trivial sections, three samples in, the second stage's
\* output differs from the first stage's
C2_Witness ==
    /\ dut = "cascade" /\ cascH.n = 3
    /\ casc.biquads[1].coeffs # casc.biquads[2].coeffs
    /\ casc.biquads[1].coeffs.a2 # Zero /\ casc.biquads[2].coeffs.a2 # Zero
    /\ casc.biquads[1].y # casc.biquads[2].y
    /\ cascH.cascOut # Zero /\ cascH.cascOut = casc.y

-----------------------------------------------------------------------------
(* The FIR filter *)

\* the tap vectors of n taps: 1, 2, 4, ... and -1, -1/2, -1/3, ...
FirTaps(n) == {[i \in 1..n |-> I(2 ^ (i - 1))], [i \in 1..n |-> Q(-1, i)]}

FirTapSets == UNION {FirTaps(n) : n \in 1..FirMaxTaps}

FirSamples == {I(0), I(1)}

\* what a load outside the buffer may yield
FirJunk == {I(0), I(1)}

FirFilterSetCoefficients(c) ==
    /\ dut = "fir"
    /\ firH.sets < FirMaxSets
    /\ fir' = FirSetCoefficients(fir, c)
    /\ firH' = [firH EXCEPT !.sets = @ + 1, !.xs = <<>>, !.quiet = TRUE,
                            !.wasReset = FALSE]
    /\ UNCHANGED notFir

\* process(x); the caller never calls it on a filter without taps
FirFilterProcess(x) ==
    /\ dut = "fir"
    /\ Len(fir.coefficients) >= 1
    /\ firH.n < FirMaxSteps
    /\ \E junk \in FirJunk :
         LET r == FirProcess(fir, x, junk)
         IN  /\ fir' = r.f
             /\ firH' = [firH EXCEPT !.n = @ + 1, !.xs = Append(@, x), !.out = r.out,
                                     !.quiet = @ /\ x = Zero,
                                     !.oob = @ \/ ~FirInBounds(fir)]
    /\ UNCHANGED notFir

FirFilterReset ==
    /\ dut = "fir"
    /\ fir' = FirReset(fir)
    /\ firH' = [firH EXCEPT !.xs = <<>>, !.quiet = TRUE, !.wasReset = TRUE]
    /\ UNCHANGED notFir

NextFir ==
    \/ \E c \in FirTapSets : FirFilterSetCoefficients(c)
    \/ \E x \in FirSamples : FirFilterProcess(x)
    \/ FirFilterReset

InitFir == dut = "fir" /\ Constructed

SpecFir == InitFir /\ [][NextFir]_vars

\* x[k] of the samples fed since the buffer was last zeroed, 0 for k < 1
FirX(k) == IF k >= 1 THEN firH.xs[k] ELSE I(0)

\* sum over i in [0, m) of c[i] * x[t - i], t the number of samples fed
RECURSIVE Convolution(_, _)
Convolution(c, m) ==
    IF m = 0 THEN I(0)
    ELSE FAdd(FMul(c[m], FirX(Len(firH.xs) - (m - 1))), Convolution(c, m - 1))

\* the samples fed are a unit impulse followed by zeros
IsImpulse(xs) == Len(xs) >= 1 /\ xs[1] = I(1) /\ \A k \in 2..Len(xs) : xs[k] = I(0)

\* C3: on a freshly constructed filter after setCoefficients(c), N >= 1 taps,
\* the t-th process call returns the sum over i in [0,N) of c[i]*x[t-i]; a unit
\* impulse followed by zeros returns c[0], ..., c[N-1] and then zeros.
C3_FirConvolution ==
    (dut = "fir" /\ firH.sets = 1 /\ Len(firH.xs) >= 1) =>
        /\ firH.out = Convolution(fir.coefficients, Len(fir.coefficients))
        /\ IsImpulse(firH.xs) =>
             firH.out = IF Len(firH.xs) <= Len(fir.coefficients)
                        THEN fir.coefficients[Len(firH.xs)] ELSE I(0)

\* the last tap of a 4-tap filter comes out for an impulse fed three calls ago,
\* after the ring index has wrapped (the fifth call of the run)
C3_Witness ==
    /\ dut = "fir" /\ firH.sets = 1 /\ firH.n = 5 /\ Len(fir.coefficients) = 4
    /\ firH.xs = <<I(1), I(0), I(0), I(0)>>
    /\ firH.out = fir.coefficients[4] /\ firH.out # I(0)

-----------------------------------------------------------------------------
(* The one-pole filters: Naive::LowPass1, TPT::LowPass1 and TPT::HighPass1, *)
(* given the same calls                                                     *)

\* the coefficients of the three filters
OpCoefs(nv, lp, hp) == [naive |-> nv.g, tptlp |-> lp.G, tpthp |-> hp.G]

\* the history after a setter that leaves the filters as nv, lp, hp
OpRetune(nv, lp, hp) ==
    LET moved == OpCoefs(nv, lp, hp) # OpCoefs(naive, tptlp, tpthp)
    IN  [opH EXCEPT !.tweak = @ \/ moved, !.set = TRUE]

\* HighPass1::setContext reads frequency: an indeterminate value reads as any
\* of the frequencies
OpSetContext(context) ==
    /\ dut = "onepole"
    /\ naive' = NaiveSetContext(naive, context)
    /\ tptlp' = TptSetContext(tptlp, context)
    /\ \E freq0 \in IndeterminateReads :
         tpthp' = TptSetContext(IF tpthp.frequency = Indeterminate
                                THEN [tpthp EXCEPT !.frequency = freq0]
                                ELSE tpthp, context)
    /\ opH' = [OpRetune(naive', tptlp', tpthp') EXCEPT !.ctx = context]
    /\ UNCHANGED notOp

OpSetCutoffFrequency(freq) ==
    /\ dut = "onepole"
    /\ naive' = NaiveSetCutoffFrequency(naive, freq)
    /\ tptlp' = TptSetCutoffFrequency(tptlp, freq)
    /\ tpthp' = TptSetCutoffFrequency(tpthp, freq)
    /\ opH' = [OpRetune(naive', tptlp', tpthp') EXCEPT !.cut = freq]
    /\ UNCHANGED notOp

OpProcess(x) ==
    /\ dut = "onepole"
    /\ opH.n < OpMaxSteps
    /\ naive' = NaiveProcess(naive, x)
    /\ tptlp' = TptLowPassProcess(tptlp, x)
    /\ tpthp' = TptHighPassProcess(tpthp, x)
    /\ LET same == opH.run > 0 /\ x = opH.x /\ ~opH.tweak
       IN  opH' = [opH EXCEPT
                     !.n = @ + 1,
                     !.quiet = @ /\ x = Zero,
                     !.tweak = FALSE,
                     !.x = x,
                     !.px = opH.x,
                     !.py = tptlp.y,
                     !.pG = opH.g.tptlp,
                     !.ppz1 = opH.pre.z1,
                     !.pre = [y |-> naive.y, z1 |-> tptlp.z1, hz1 |-> tpthp.z1],
                     !.g = OpCoefs(naive, tptlp, tpthp),
                     !.rec = FAdd(@, FMul(naive.g, FSub(x, @))),
                     !.rec2 = FAdd(@, FMul(FMul(I(2), tptlp.G), FSub(x, @))),
                     !.run = IF same THEN @ + 1 ELSE 1,
                     !.e0 = IF same THEN @
                            ELSE [y |-> FSub(x, naive.y), z1 |-> FSub(x, tptlp.z1),
                                  hz1 |-> FSub(x, tpthp.z1)]]
    /\ UNCHANGED notOp

OpReset ==
    /\ dut = "onepole"
    /\ naive' = NaiveReset(naive)
    /\ tptlp' = TptReset(tptlp)
    /\ tpthp' = TptReset(tpthp)
    /\ opH' = [OpHistory0 EXCEPT !.set = opH.set, !.cut = opH.cut, !.ctx = opH.ctx]
    /\ UNCHANGED notOp

NextOp ==
    \/ \E c \in Contexts : OpSetContext(c)
    \/ \E f \in Frequencies : OpSetCutoffFrequency(f)
    \/ \E x \in OpSamples : OpProcess(x)
    \/ OpReset

InitOp == dut = "onepole" /\ Constructed

SpecOp == InitOp /\ [][NextOp]_vars

\* a coefficient strictly between 0 and 1
InUnit(g) == FLt(I(0), g) /\ FLt(g, I(1))

RECURSIVE FPow(_, _)
FPow(a, k) == IF k = 0 THEN I(1) ELSE FMul(a, FPow(a, k - 1))

\* C4 as stated: from zero state, with the same coefficient and the same input,
\* Naive::processLP and TPT::processLP both return, at every sample, the output
\* of y[n] = y[n-1] + g * (x[n] - y[n-1]).
C4_BothAreTheRecurrence ==
    opH.n > 0 => naive.y = opH.rec /\ tptlp.y = opH.rec

\* C4, amended: from zero state Naive::processLP returns the recurrence's output
\* at every sample; TPT::processLP returns it on the first sample only, and in
\* general is the trapezoidal integrator z1[n] = z1[n-1] + 2G * (x[n] - z1[n-1])
\* with output y[n] = (z1[n-1] + z1[n]) / 2.
C4_NaiveIsRecurrenceTptIsTrapezoid ==
    opH.n > 0 =>
        /\ naive.y = opH.rec
        /\ tptlp.z1 = opH.rec2
        /\ FMul(I(2), tptlp.y) = FAdd(opH.pre.z1, tptlp.z1)
        /\ (opH.n = 1 => tptlp.y = opH.rec)

\* the second of two samples 1, 1 with coefficient 1/2: the recurrence and the
\* naive filter are at 3/4, the TPT filter returns 1
C4_Witness ==
    /\ opH.n = 2 /\ opH.x = I(1) /\ opH.px = I(1) /\ opH.pG = Q(1, 2)
    /\ opH.g.naive = Q(1, 2) /\ opH.g.tptlp = Q(1, 2)
    /\ opH.rec = Q(3, 4) /\ naive.y = Q(3, 4) /\ tptlp.y = I(1)

\* C6: with a coefficient in (0,1) and a constant input x, every process call
\* multiplies the distance of a low-pass from x by a fixed factor of magnitude
\* below 1 (1 - g for the naive filter, 1 - 2G for the TPT integrator state,
\* whose output is at (1 - G) times the previous distance), whatever the state
\* the run started from; the output of the high-pass is that remaining distance
\* of its own low-pass, so it goes to 0 at the same rate.
C6_ConstantInputConverges ==
    opH.run > 0 =>
        /\ InUnit(opH.g.naive) =>
            /\ FLt(FAbs(FSub(I(1), opH.g.naive)), I(1))
            /\ FSub(opH.x, naive.y)
                 = FMul(FPow(FSub(I(1), opH.g.naive), opH.run), opH.e0.y)
        /\ InUnit(opH.g.tptlp) =>
            LET q == FSub(I(1), FMul(I(2), opH.g.tptlp))
            IN  /\ FLt(FAbs(q), I(1))
                /\ FSub(opH.x, tptlp.z1) = FMul(FPow(q, opH.run), opH.e0.z1)
                /\ FSub(opH.x, tptlp.y)
                     = FMul(FMul(FSub(I(1), opH.g.tptlp), FPow(q, opH.run - 1)),
                            opH.e0.z1)
        /\ InUnit(opH.g.tpthp) =>
            LET q == FSub(I(1), FMul(I(2), opH.g.tpthp))
            IN  /\ FLt(FAbs(q), I(1))
                /\ tpthp.y
                     = FMul(FMul(FSub(I(1), opH.g.tpthp), FPow(q, opH.run - 1)),
                            opH.e0.hz1)

\* three calls with the same input and coefficients in (0,1), started away from
\* the input: every distance has shrunk, the high-pass one changing sign
C6_Witness ==
    /\ opH.run = 3 /\ opH.x = I(1)
    /\ InUnit(opH.g.naive) /\ InUnit(opH.g.tptlp) /\ InUnit(opH.g.tpthp)
    /\ opH.e0.y # I(0) /\ opH.e0.z1 # I(0) /\ opH.e0.hz1 # I(0)
    /\ FLt(FAbs(FSub(opH.x, naive.y)), FAbs(opH.e0.y))
    /\ FLt(FAbs(FSub(opH.x, tptlp.y)), FAbs(opH.e0.z1))
    /\ FLt(FAbs(tpthp.y), FAbs(opH.e0.hz1))
    /\ FLt(FSub(I(1), FMul(I(2), opH.g.tpthp)), I(0))

\* C8 as stated: when the coefficient of the TPT low-pass changes between two
\* consecutive process calls, |y[n] - y[n-1]| <= |x[n] - x[n-1]|.
C8_JumpWithinInputStep ==
    (opH.n >= 2 /\ opH.pG # opH.g.tptlp /\ InUnit(opH.pG) /\ InUnit(opH.g.tptlp)) =>
        FLe(FAbs(FSub(tptlp.y, opH.py)), FAbs(FSub(opH.x, opH.px)))

\* C8, amended: between two consecutive process calls of the TPT low-pass, the
\* coefficient changed or not, the output moves by at most the input step plus
\* the distance the filter was from its input before the earlier call:
\* |y[n] - y[n-1]| <= |x[n] - x[n-1]| + |x[n-1] - z1[n-2]|.
C8_JumpWithinInputStepAndLag ==
    (opH.n >= 2 /\ InUnit(opH.pG) /\ InUnit(opH.g.tptlp)) =>
        FLe(FAbs(FSub(tptlp.y, opH.py)),
            FAdd(FAbs(FSub(opH.x, opH.px)), FAbs(FSub(opH.px, opH.ppz1))))

\* the coefficient changed between two calls with the same input, and the output
\* moved although the input did not
C8_Witness ==
    /\ opH.n >= 2 /\ InUnit(opH.pG) /\ InUnit(opH.g.tptlp)
    /\ opH.pG # opH.g.tptlp
    /\ opH.x = opH.px
    /\ tptlp.y # opH.py

-----------------------------------------------------------------------------
(* The settling run of a naive one-pole *)

RampProcess ==
    /\ dut = "ramp"
    /\ ramp.n < SettleCalls
    /\ ramp' = [ramp EXCEPT !.n = @ + 1, !.y = ProcessLPEnclosure(ramp.y, ramp.g)]
    /\ UNCHANGED notRamp

NextRamp == RampProcess

InitRamp == dut = "ramp" /\ Constructed

SpecRamp == InitRamp /\ [][NextRamp]_vars

\* C5 as stated: with g = timeToG(0.01, 1/48000), after 480 calls of
\* process(1.0) from state 0 the output is within 1e-3 of 1.0 (some value of
\* the enclosure is at least 0.999).
C5_SettledWithinTolerance ==
    ramp.n = SettleCalls => 1000 * ramp.y.hi >= 999 * YScale

\* C5, amended: after the 480 calls the output is between 0.785 and 0.795
\* (1 - (1 - g)^480 with g about 0.003262), about a fifth short of 1.0.
C5_SettledNearFourFifths ==
    ramp.n = SettleCalls =>
        /\ 1000 * ramp.y.lo >= 785 * YScale
        /\ 1000 * ramp.y.hi <= 795 * YScale
        /\ ramp.y.lo <= ramp.y.hi

\* the run has made its 480 calls with g = timeToG(0.01, 1/48000)
C5_Witness ==
    /\ ramp.n = SettleCalls
    /\ ramp.g = [lo |-> 3420, hi |-> 3421]
    /\ 1000 * ramp.y.hi < 999 * YScale

-----------------------------------------------------------------------------
(* normFrequencyToG over the frequencies below half the sample rate *)

\* sample rates 1..CalcMaxRate and frequencies in steps of 1/2
CalcRates == {I(k) : k \in 1..CalcMaxRate}
CalcFrequencies == {Q(k, 2) : k \in 1..CalcMaxRate}

\* g = normFrequencyToG(f / sr * 2) for 0 < f < sr / 2
CalcCoefficient(f, sr) ==
    /\ dut = "calc"
    /\ FLt(I(0), f) /\ FLt(f, FDiv(sr, I(2)))
    /\ calc' = [done |-> TRUE, f |-> f, sr |-> sr,
                g |-> normFrequencyToG(FMul(FDiv(f, sr), I(2)))]
    /\ UNCHANGED notCalc

NextCalc == \E f \in CalcFrequencies, sr \in CalcRates : CalcCoefficient(f, sr)

InitCalc == dut = "calc" /\ Constructed

SpecCalc == InitCalc /\ [][NextCalc]_vars

\* C9: for 0 < f < sr/2, normFrequencyToG(f/sr*2) is strictly between 0 and 1,
\* and it is x/(x+1) for the pi-scaled argument x = (f/sr*2)*pi > 0.
C9_CoefficientInUnitInterval ==
    calc.done =>
        LET x == FMul(FMul(FDiv(calc.f, calc.sr), I(2)), fpi)
        IN  /\ FLt(I(0), x)
            /\ FLt(I(0), calc.g) /\ FLt(calc.g, I(1))
            /\ calc.g = FDiv(x, FAdd(x, I(1)))

\* a frequency just below half the sample rate: the argument of the
\* normalisation is above 1 and the coefficient still below 1
C9_Witness ==
    /\ calc.done
    /\ calc.sr = I(CalcMaxRate) /\ calc.f = Q(2 * 12 - 1, 2)
    /\ FLt(I(3), FMul(FMul(FDiv(calc.f, calc.sr), I(2)), fpi))
    /\ FLt(Q(3, 4), calc.g)

-----------------------------------------------------------------------------
(* Fir::WindowedSincLowpass(cutoff, duration, sr)                           *)
(* Angles are kept in turns (1 turn = 2 pi) and std::sin, std::cos taken at  *)
(* their exact values on the multiples of a quarter and of a sixth of a     *)
(* turn, the only angles the kernels designed below contain.                *)

\* the fractional part of a number of turns
FracTurn(t) == Q(t[1] % t[2], t[2])

\* std::cos(t * 2 pi)
CosTurn(t) ==
    IF ~IsFinite(t) THEN NaN
    ELSE LET u == FracTurn(t)
         IN  CASE u = I(0) -> I(1)
               [] u = Q(1, 6) -> Q(1, 2)
               [] u = Q(1, 4) -> I(0)
               [] u = Q(1, 3) -> Q(-1, 2)
               [] u = Q(1, 2) -> I(-1)
               [] u = Q(2, 3) -> Q(-1, 2)
               [] u = Q(3, 4) -> I(0)
               [] u = Q(5, 6) -> Q(1, 2)

\* std::sin(t * 2 pi)
SinTurn(t) ==
    IF ~IsFinite(t) THEN NaN
    ELSE LET u == FracTurn(t)
         IN  CASE u = I(0) -> I(0)
               [] u = Q(1, 4) -> I(1)
               [] u = Q(1, 2) -> I(0)
               [] u = Q(3, 4) -> I(-1)

\* size_t(0) - 1 wraps to the largest size_t, written -1 here
SizeMax == -1

\* N = static_cast<size_t>(sr * duration); if (N % 2 == 0) N -= 1
KernelSize(duration, sr) ==
    LET p == FMul(sr, duration)
        N == p[1] \div p[2]
    IN  IF N % 2 = 0 THEN (IF N = 0 THEN SizeMax ELSE N - 1) ELSE N

\* the Blackman-Nuttall window at index n of M + 1
Window(n, M) ==
    LET a0 == Q(3635819, 10000000)
        a1 == Q(4891775, 10000000)
        a2 == Q(1365995, 10000000)
        a3 == Q(106411, 10000000)
        nm == FDiv(I(n), I(M))
    IN  FSub(FAdd(FSub(a0, FMul(a1, CosTurn(nm))),
                  FMul(a2, CosTurn(FMul(nm, I(2))))),
             FMul(a3, CosTurn(FMul(nm, I(3)))))

\* a raw tap whose sinc is centred on the last index: x = (n - M) * wc
RawTap_OffCentre(n, M, cutoff, sr) ==
    LET xt == FMul(FSub(I(n), I(M)), FDiv(cutoff, sr))
        x == FMul(FMul(xt, fpi), I(2))
        sinc == IF x = I(0) THEN I(1) ELSE FDiv(SinTurn(xt), x)
    IN  FMul(Window(n, M), sinc)

\* the raw tap at index n: window * sinc, sinc = (x == 0) ? 1 : sin(x) / x
RawTap(n, M, cutoff, sr) ==
    LET xt == FMul(FSub(I(n), FMul(I(M), Q(1, 2))), FDiv(cutoff, sr))
        x == FMul(FMul(xt, fpi), I(2))
        sinc == IF x = I(0) THEN I(1) ELSE FDiv(SinTurn(xt), x)
    IN  FMul(Window(n, M), sinc)

\* the sum of the first k elements of v, accumulated from 0.0 in index order
RECURSIVE SumFirst(_, _)
SumFirst(v, k) == IF k = 0 THEN I(0) ELSE FAdd(SumFirst(v, k - 1), v[k])

Sum(v) == SumFirst(v, Len(v))

\* the returned vector for a size N >= 1: every raw tap divided by their sum
WindowedSincLowpass(N, cutoff, sr) ==
    LET raw == [i \in 1..N |-> RawTap(i - 1, N - 1, cutoff, sr)]
        sum == Sum(raw)
    IN  [i \in 1..N |-> FDiv(raw[i], sum)]

\* sample rates, durations in quarters of a second, and cutoffs at 0, 1/2 and 1
\* times the sample rate
KernelRates == {I(1), I(2), I(4), I(8)}
KernelDurations == {Q(k, 4) : k \in 1..16}
KernelCutoffs(sr) == {I(0), FDiv(sr, I(2)), sr}

\* a call of WindowedSincLowpass; std::vector<double>(SIZE_MAX) throws
DesignKernel(cutoff, duration, sr) ==
    /\ dut = "kernel"
    /\ LET N == KernelSize(duration, sr)
       IN  /\ N <= KernelMaxTaps
           /\ kernel' = [done |-> TRUE, cutoff |-> cutoff, duration |-> duration,
                         sr |-> sr, thrown |-> (N = SizeMax),
                         taps |-> IF N = SizeMax THEN <<>>
                                  ELSE WindowedSincLowpass(N, cutoff, sr)]
    /\ UNCHANGED notKernel

NextKernel ==
    \E sr \in KernelRates, duration \in KernelDurations :
        \E cutoff \in KernelCutoffs(sr) : DesignKernel(cutoff, duration, sr)

InitKernel == dut = "kernel" /\ Constructed

SpecKernel == InitKernel /\ [][NextKernel]_vars

\* C10 as stated: whenever WindowedSincLowpass returns a kernel of N >= 1
\* taps, the taps sum to 1.
C10_TapsSumToOne ==
    (kernel.done /\ ~kernel.thrown /\ Len(kernel.taps) >= 1) =>
        Sum(kernel.taps) = I(1)

-----------------------------------------------------------------------------
(* The state-variable filter *)

Resonances == {I(-1), Q(1, 2), I(2), NaN}

\* a run makes SvfMaxSteps process calls in all (svfH.calls, which reset leaves
\* alone) and ends with the last of them: setters and reset come before it
SvfFilterSetContext(context) ==
    /\ dut = "svf"
    /\ svfH.calls < SvfMaxSteps
    /\ svf' = SvfSetContext(svf, context)
    /\ svfH' = [SvfTouched(svfH) EXCEPT !.set = TRUE, !.ctx = context]
    /\ UNCHANGED notSvf

SvfFilterSetCutoffFrequency(freq) ==
    /\ dut = "svf"
    /\ svfH.calls < SvfMaxSteps
    /\ svf' = SvfSetCutoffFrequency(svf, freq)
    /\ svfH' = [SvfTouched(svfH) EXCEPT !.set = TRUE, !.cut = freq]
    /\ UNCHANGED notSvf

SvfFilterSetResonance(r) ==
    /\ dut = "svf"
    /\ svfH.calls < SvfMaxSteps
    /\ svf' = SvfSetResonance(svf, r)
    /\ svfH' = [SvfTouched(svfH) EXCEPT !.asked = TRUE, !.r = r]
    /\ UNCHANGED notSvf

\* processHighPass, processBandPass, processLowPass: processInternal(x), then
\* the output asked for is returned
SvfFilterProcess(x, output) ==
    /\ dut = "svf"
    /\ svfH.calls < SvfMaxSteps
    /\ svf' = SvfProcessInternal(svf, x)
    /\ LET pair == svfH.n > 0 /\ ~svfH.touched /\ x = svfH.x
       IN  svfH' = [svfH EXCEPT
                      !.n = @ + 1, !.calls = @ + 1, !.quiet = @ /\ x = Zero,
                      !.out = svf'[output],
                      !.asked = FALSE, !.r = SvfHistory0.r,
                      !.x = x, !.which = output, !.touched = FALSE,
                      !.pair = pair,
                      !.pre = [s1 |-> svf.s1, s2 |-> svf.s2],
                      !.from = IF pair THEN svfH.pre ELSE SvfHistory0.from,
                      !.first = IF pair
                                THEN [hp |-> svf.hp, bp |-> svf.bp, lp |-> svf.lp]
                                ELSE SvfHistory0.first]
    /\ UNCHANGED notSvf

SvfFilterReset ==
    /\ dut = "svf"
    /\ svfH.calls < SvfMaxSteps
    /\ svf' = SvfReset(svf)
    /\ svfH' = [SvfHistory0 EXCEPT !.calls = svfH.calls, !.updated = svfH.updated,
                                   !.set = svfH.set,
                                   !.cut = svfH.cut, !.ctx = svfH.ctx]
    /\ UNCHANGED notSvf

NextSvf ==
    \/ \E c \in Contexts : SvfFilterSetContext(c)
    \/ \E f \in Frequencies : SvfFilterSetCutoffFrequency(f)
    \/ \E r \in Resonances : SvfFilterSetResonance(r)
    \/ \E x \in OpSamples, output \in {"hp", "bp", "lp"} : SvfFilterProcess(x, output)
    \/ SvfFilterReset

InitSvf == dut = "svf" /\ Constructed

SpecSvf == InitSvf /\ [][NextSvf]_vars

-----------------------------------------------------------------------------
(* Every filter kind, one at a time *)

FilterKinds == {"bank", "onepole", "svf", "fir"}

InitFilters == dut \in FilterKinds /\ Constructed

NextFilters == NextBank \/ NextOp \/ NextSvf \/ NextFir

SpecFilters == InitFilters /\ [][NextFilters]_vars

\* C7 as stated: for every filter kind, every process(0) after a reset()
\* returns 0, whatever was processed and whatever coefficients were set before.
C7_SilenceAfterReset ==
    /\ (opH.n > 0 /\ opH.quiet) =>
            naive.y = Zero /\ tptlp.y = Zero /\ tpthp.y = Zero
    /\ (svfH.n > 0 /\ svfH.quiet) => svfH.out = Zero
    /\ (bankH.n > 0 /\ bankH.quiet) => \A t \in Topologies : bank[t].y = Zero
    /\ (Len(firH.xs) > 0 /\ firH.quiet /\ firH.wasReset) => firH.out = Zero

-----------------------------------------------------------------------------
(* The size and the centre of the kernel *)

\* floor(sr * duration) of the last call
KernelFloor ==
    LET p == FMul(kernel.sr, kernel.duration)
    IN  p[1] \div p[2]

\* C11 as stated: for floor(sr * duration) >= 0, WindowedSincLowpass returns a
\* vector of floor(sr * duration) taps when that is odd and one fewer when it
\* is even, an odd positive length not larger than floor(sr * duration).
C11_KernelLength ==
    (kernel.done /\ KernelFloor >= 0) =>
        LET F == KernelFloor
            N == Len(kernel.taps)
        IN  /\ ~kernel.thrown
            /\ N = (IF F % 2 = 1 THEN F ELSE F - 1)
            /\ N % 2 = 1 /\ N >= 1 /\ N <= F

-----------------------------------------------------------------------------
(* Coefficients and the two setters *)

\* C13 as stated: once setContext or setCutoffFrequency has been called, the
\* coefficient of Naive LowPass1, TPT LowPass1, TPT HighPass1 and
\* StateVariableFilter is frequencyToG(cutoff, T) for the last cutoff passed
\* (100 Hz if none) and the context last set, in whatever order the setters
\* came, and process and reset leave it alone.
C13_CoefficientFollowsSetters ==
    /\ opH.set =>
        LET G == frequencyToG(opH.cut, opH.ctx.T)
        IN  naive.g = G /\ tptlp.G = G /\ tpthp.G = G
    /\ svfH.set => svf.G = frequencyToG(svfH.cut, svfH.ctx.T)

-----------------------------------------------------------------------------
(* What reset() writes and what it leaves *)

\* C14: reset() on Naive LowPass1, TPT LowPass1, TPT HighPass1,
\* StateVariableFilter and Biquad sets every delay and integrator register of
\* the instance to zero and leaves its coefficients, its stored cutoff and
\* resonance and its context unchanged.
C14_ResetFrame ==
    [][ /\ OpReset =>
            /\ naive'.y = Zero
            /\ tptlp'.z1 = Zero /\ tpthp'.z1 = Zero
            /\ naive'.g = naive.g /\ naive'.frequency = naive.frequency
            /\ naive'.c = naive.c
            /\ \A f \in {<<tptlp, tptlp'>>, <<tpthp, tpthp'>>} :
                 f[2].G = f[1].G /\ f[2].frequency = f[1].frequency /\ f[2].c = f[1].c
        /\ SvfFilterReset =>
            /\ svf'.s1 = Zero /\ svf'.s2 = Zero
            /\ \A k \in {"G", "R", "g1", "d", "frequency", "resonance", "c"} :
                 svf'[k] = svf[k]
        /\ BankReset =>
            \A t \in Topologies :
                /\ \A k \in DOMAIN bank'[t].st : bank'[t].st[k] = Zero
                /\ DOMAIN bank'[t].st = DOMAIN bank[t].st
                /\ bank'[t].coeffs = bank[t].coeffs
      ]_vars

\* the one-pole filters just after a reset that followed processing with a
\* configured coefficient: registers at zero, coefficient and cutoff in place
\* (the last output of the TPT low-pass, which is no register, is still there)
C14_Witness ==
    /\ dut = "onepole" /\ opH.n = 0 /\ opH.set
    /\ tptlp.y # Zero
    /\ naive.y = Zero /\ tptlp.z1 = Zero /\ tpthp.z1 = Zero
    /\ InUnit(naive.g) /\ InUnit(tptlp.G) /\ InUnit(tpthp.G)
    /\ naive.frequency = I(150)

-----------------------------------------------------------------------------
(* setResonance *)

\* r clamped to [0, 1], for a number r
Clamped01(r) == IF FLe(r, I(0)) THEN I(0) ELSE IF FLe(I(1), r) THEN I(1) ELSE r

\* C15: setResonance(r) accepts every r, stores resonance = r clamped to [0,1]
\* and sets R = 1 - 0.9 * resonance, so R is in [0.1, 1.0], 1.0 for r <= 0 and
\* 0.1 for r >= 1.
C15_ResonanceClamped ==
    /\ FLe(I(0), svf.resonance) /\ FLe(svf.resonance, I(1))
    /\ svf.R = FSub(I(1), FMul(Q(9, 10), svf.resonance))
    /\ FLe(Q(1, 10), svf.R) /\ FLe(svf.R, I(1))
    /\ (svfH.asked /\ ~IsNaN(svfH.r)) =>
        /\ svf.resonance = Clamped01(svfH.r)
        /\ FLe(svfH.r, I(0)) => svf.R = I(1)
        /\ FLe(I(1), svfH.r) => svf.R = Q(1, 10)

\* setResonance(2) has acted: resonance 1, R at its floor 0.1, and g1 = 2R + G
\* recomputed with a configured G
C15_Witness ==
    /\ dut = "svf" /\ svfH.asked /\ svfH.r = I(2)
    /\ svf.resonance = I(1) /\ svf.R = Q(1, 10)
    /\ InUnit(svf.G) /\ svf.g1 = FAdd(Q(1, 5), svf.G)

-----------------------------------------------------------------------------
(* One sample per process call of the state-variable filter *)

\* one sample x through the filter equations, from integrator states s1, s2:
\* hp = (x - g1 s1 - s2) d, bp = G hp + s1, lp = G bp + s2, and each integrator
\* advanced by twice its increment
SvfSample(f, s, x) ==
    LET hp == FMul(FSub(x, FAdd(FMul(f.g1, s.s1), s.s2)), f.d)
        bp == FAdd(FMul(f.G, hp), s.s1)
        lp == FAdd(FMul(f.G, bp), s.s2)
    IN  [hp |-> hp, bp |-> bp, lp |-> lp,
         s1 |-> FAdd(s.s1, FMul(I(2), FMul(f.G, hp))),
         s2 |-> FAdd(s.s2, FMul(I(2), FMul(f.G, bp)))]

\* C16: each processHighPass / processBandPass / processLowPass call is one
\* full update of s1 and s2: two calls with the same x leave the filter where
\* two successive samples x take it, and the second call returns the output
\* for the second sample (the first call's outputs being those of the first).
C16_EveryCallAdvances ==
    (svfH.pair /\ ~svfH.touched) =>
        LET a == SvfSample(svf, svfH.from, svfH.x)
            b == SvfSample(svf, a, svfH.x)
        IN  /\ svf.s1 = b.s1 /\ svf.s2 = b.s2
            /\ svfH.out = b[svfH.which]
            /\ svfH.first = [hp |-> a.hp, bp |-> a.bp, lp |-> a.lp]

\* two calls with x = 1 and a configured coefficient: the second returned the
\* low-pass output of the second sample, which is not the low-pass output the
\* first call computed, and the integrators moved on both calls
C16_Witness ==
    /\ svfH.pair /\ ~svfH.touched /\ svfH.x = I(1) /\ svfH.which = "lp"
    /\ InUnit(svf.G)
    /\ svfH.out # svfH.first.lp
    /\ svfH.out = svf.lp
    /\ svfH.pre # svfH.from
    /\ svf.s2 # svfH.pre.s2

-----------------------------------------------------------------------------
(* bilinear over small analog prototypes *)

\* the six analog coefficients range over -1..BilMaxCoef
BilMaxCoef == 1
BilCoefs == {I(k) : k \in -1..BilMaxCoef}
BilPrototypes ==
    [b0 : BilCoefs, b1 : BilCoefs, b2 : BilCoefs,
     a0 : BilCoefs, a1 : BilCoefs, a2 : BilCoefs]

\* sample rates 1/2 and 1: k is 1 and 2
BilRates == {Q(1, 2), I(1)}

\* one call per run: the function has no state of its own
Transform(in, sr) ==
    /\ dut = "bil"
    /\ ~bil.done
    /\ bil' = [done |-> TRUE, in |-> in, sr |-> sr, out |-> bilinear(in, sr)]
    /\ UNCHANGED notBil

NextBil == \E in \in BilPrototypes, sr \in BilRates : Transform(in, sr)

InitBil == dut = "bil" /\ Constructed

SpecBil == InitBil /\ [][NextBil]_vars

\* k = 2 sr and D = a0 + a1 k + a2 k^2 of the last call
BilK == FMul(I(2), bil.sr)
BilD == FAdd(bil.in.a0, FAdd(FMul(bil.in.a1, BilK), FMul(bil.in.a2, FMul(BilK, BilK))))

\* C17: when D = a0 + a1 k + a2 k^2 is not zero, with k = 2 sr, bilinear returns
\* b0 = (b0 + b1 k + b2 k^2)/D, b1 = (2 b0 - 2 b2 k^2)/D, b2 = (b0 - b1 k + b2 k^2)/D,
\* a1 = (2 a0 - 2 a2 k^2)/D, a2 = (a0 - a1 k + a2 k^2)/D and a0 = 1; each quotient
\* is stated as its product with D.
C17_BilinearFormulae ==
    (bil.done /\ BilD # I(0)) =>
        LET in == bil.in
            out == bil.out
            k == BilK
            kk == FMul(BilK, BilK)
        IN  /\ \A n \in {"b0", "b1", "b2", "a1", "a2"} : IsFinite(out[n])
            /\ FMul(out.b0, BilD) = FAdd(in.b0, FAdd(FMul(in.b1, k), FMul(in.b2, kk)))
            /\ FMul(out.b1, BilD) = FMul(I(2), FSub(in.b0, FMul(in.b2, kk)))
            /\ FMul(out.b2, BilD) = FAdd(FSub(in.b0, FMul(in.b1, k)), FMul(in.b2, kk))
            /\ FMul(out.a1, BilD) = FMul(I(2), FSub(in.a0, FMul(in.a2, kk)))
            /\ FMul(out.a2, BilD) = FAdd(FSub(in.a0, FMul(in.a1, k)), FMul(in.a2, kk))
            /\ out.a0 = I(1)

\* the prototype 1 / (s^2 + s + 1) at sr = 1: D = 7 and the digital low-pass
\* (1 + 2 z^-1 + z^-2) / (7 - 6 z^-1 + 3 z^-2), normalised by 7
C17_Witness ==
    /\ bil.done /\ bil.sr = I(1)
    /\ bil.in = [b0 |-> I(1), b1 |-> I(0), b2 |-> I(0),
                 a0 |-> I(1), a1 |-> I(1), a2 |-> I(1)]
    /\ BilD = I(7)
    /\ bil.out = [b0 |-> Q(1, 7), b1 |-> Q(2, 7), b2 |-> Q(1, 7),
                  a0 |-> I(1), a1 |-> Q(-6, 7), a2 |-> Q(3, 7)]

\* a quotient of the last call is an infinity or a NaN: its divisor was zero
BilDividedByZero == \E n \in {"b0", "b1", "b2", "a1", "a2"} : ~IsFinite(bil.out[n])

\* C18 as stated: bilinear divides by zero whenever the a0 of the prototype is 0
\* and does not when it is not.
C18_ZeroDivisorIffPrototypeA0Zero ==
    bil.done => (BilDividedByZero <=> bil.in.a0 = I(0))

\* C18: bilinear divides by zero exactly when D = a0 + a1 k + a2 k^2 is zero,
\* with k = 2 sr; then every quotient is an infinity or a NaN, otherwise every
\* quotient is finite.
C18_ZeroDivisorIffDenominatorZero ==
    bil.done =>
        /\ BilDividedByZero <=> BilD = I(0)
        /\ BilD = I(0) => \A n \in {"b0", "b1", "b2", "a1", "a2"} : ~IsFinite(bil.out[n])

\* the prototype 1 / (1 - s^2) at sr = 1/2: a0 is 1, D = 1 - k^2 is 0 and the
\* quotients are infinite or NaN
C18_Witness ==
    /\ bil.done /\ bil.sr = Q(1, 2)
    /\ bil.in = [b0 |-> I(1), b1 |-> I(0), b2 |-> I(0),
                 a0 |-> I(1), a1 |-> I(0), a2 |-> I(-1)]
    /\ BilD = I(0)
    /\ bil.out.b0 = PosInf /\ bil.out.a1 = PosInf /\ IsNaN(bil.out.a2)
-----------------------------------------------------------------------------
(* The two linear smoothers *)

\* process calls per run
SmootherMaxSteps == 4

\* contexts of 2 and 4 samples per second, smoothing times and targets
SmootherContexts == {Context(I(2)), Context(I(4))}
RateTimes == {I(-1), Q(1, 2), I(1)}
SmootherValues == {I(-1), I(1)}

RateSmootherSetContext(context) ==
    /\ dut = "rate"
    /\ rateH.n < SmootherMaxSteps
    /\ rateSmoother' = RateSetContext(rateSmoother, context)
    /\ rateH' = [rateH EXCEPT !.stepped = FALSE, !.prev = RateHistory0.prev,
                              !.k = 0, !.from = rateSmoother'.currentValue]
    /\ UNCHANGED notRate

RateSmootherSetTime(newTime) ==
    /\ dut = "rate"
    /\ rateH.n < SmootherMaxSteps
    /\ rateSmoother' = RateSetTime(rateSmoother, newTime)
    /\ rateH' = [rateH EXCEPT !.stepped = FALSE, !.prev = RateHistory0.prev,
                              !.k = 0, !.from = rateSmoother'.currentValue]
    /\ UNCHANGED notRate

RateSmootherSetTargetValue(value) ==
    /\ dut = "rate"
    /\ rateH.n < SmootherMaxSteps
    /\ rateSmoother' = RateSetTargetValue(rateSmoother, value)
    /\ rateH' = [rateH EXCEPT !.stepped = FALSE, !.prev = RateHistory0.prev,
                              !.k = 0, !.from = rateSmoother'.currentValue]
    /\ UNCHANGED notRate

RateSmootherProcess ==
    /\ dut = "rate"
    /\ rateH.n < SmootherMaxSteps
    /\ rateSmoother' = Process(rateSmoother)
    /\ rateH' = [n |-> rateH.n + 1, stepped |-> TRUE, prev |-> rateSmoother.currentValue,
                 k |-> rateH.k + 1, from |-> rateH.from]
    /\ UNCHANGED notRate

RateSmootherProcessValue(value) ==
    /\ dut = "rate"
    /\ rateH.n < SmootherMaxSteps
    /\ rateSmoother' = RateProcessValue(rateSmoother, value)
    /\ rateH' = [n |-> rateH.n + 1, stepped |-> TRUE, prev |-> rateSmoother.currentValue,
                 k |-> 0, from |-> rateSmoother'.currentValue]
    /\ UNCHANGED notRate

RateSmootherReset ==
    /\ dut = "rate"
    /\ rateH.n < SmootherMaxSteps
    /\ rateSmoother' = RateReset(rateSmoother)
    /\ rateH' = [rateH EXCEPT !.stepped = FALSE, !.prev = RateHistory0.prev,
                              !.k = 0, !.from = rateSmoother'.currentValue]
    /\ UNCHANGED notRate

NextRate ==
    \/ \E context \in SmootherContexts : RateSmootherSetContext(context)
    \/ \E newTime \in RateTimes : RateSmootherSetTime(newTime)
    \/ \E value \in SmootherValues : RateSmootherSetTargetValue(value)
    \/ RateSmootherProcess
    \/ \E value \in SmootherValues : RateSmootherProcessValue(value)
    \/ RateSmootherReset

InitRate == dut = "rate" /\ Constructed

SpecRate == InitRate /\ [][NextRate]_vars

\* C20: with delta >= 0, a process step of ConstantRateLinearSmoother changes
\* currentValue by at most delta, leaves it between its old value and
\* targetValue, and puts it on targetValue when the distance was at most delta.
C20_StepBoundedNoOvershoot ==
    (rateH.stepped /\ FLe(I(0), rateSmoother.delta)) =>
        LET old == rateH.prev
            new == rateSmoother.currentValue
            target == rateSmoother.targetValue
            delta == rateSmoother.delta
        IN  /\ FLe(abs(FSub(new, old)), delta)
            /\ \/ FLe(old, new) /\ FLe(new, target)
               \/ FLe(target, new) /\ FLe(new, old)
            /\ FLe(abs(FSub(target, old)), delta) => new = target

\* delta = 1/2 and the target 1 away from 1/4: the step is clamped to 1/2 and
\* stops at 3/4, short of the target
C20_Witness ==
    /\ rateH.stepped /\ rateH.n >= 2
    /\ rateSmoother.delta = Q(1, 2)
    /\ rateH.prev = Q(1, 4)
    /\ rateSmoother.targetValue = I(1)
    /\ rateSmoother.currentValue = Q(3, 4)

TimeTimes == {Q(1, 2), Q(3, 4), I(1)}

TimeSmootherSetContext(context) ==
    /\ dut = "time"
    /\ timeH.n < SmootherMaxSteps
    /\ timeSmoother' = TimeSetContext(timeSmoother, context)
    /\ timeH' = [TimeHistory0 EXCEPT !.n = timeH.n]
    /\ UNCHANGED notTime

TimeSmootherSetTime(newTime) ==
    /\ dut = "time"
    /\ timeH.n < SmootherMaxSteps
    /\ timeSmoother' = TimeSetTime(timeSmoother, newTime)
    /\ timeH' = [TimeHistory0 EXCEPT !.n = timeH.n]
    /\ UNCHANGED notTime

TimeSmootherSetTargetValue(value) ==
    /\ dut = "time"
    /\ timeH.n < SmootherMaxSteps
    /\ timeSmoother' = TimeSetTargetValue(timeSmoother, value)
    /\ timeH' = [n |-> timeH.n, mode |-> "set", v |-> value,
                 from |-> timeSmoother.currentValue, k |-> 0]
    /\ UNCHANGED notTime

\* the runs process under the contexts set by setContext: the squares of the
\* default period 1/48000 leave the range of the exact arithmetic
TimeSmootherProcess ==
    /\ dut = "time"
    /\ timeH.n < SmootherMaxSteps
    /\ timeSmoother.c \in SmootherContexts
    /\ timeSmoother' = Process(timeSmoother)
    /\ timeH' = IF timeH.mode = "set"
                THEN [timeH EXCEPT !.n = @ + 1, !.k = @ + 1]
                ELSE [TimeHistory0 EXCEPT !.n = timeH.n + 1]
    /\ UNCHANGED notTime

TimeSmootherProcessValue(value) ==
    /\ dut = "time"
    /\ timeH.n < SmootherMaxSteps
    /\ timeSmoother.c \in SmootherContexts
    /\ timeSmoother' = TimeProcessValue(timeSmoother, value)
    /\ timeH' = IF timeH.mode = "each" /\ timeH.v = value
                THEN [timeH EXCEPT !.n = @ + 1, !.k = @ + 1]
                ELSE [n |-> timeH.n + 1, mode |-> "each", v |-> value,
                      from |-> timeSmoother.currentValue, k |-> 1]
    /\ UNCHANGED notTime

TimeSmootherReset ==
    /\ dut = "time"
    /\ timeH.n < SmootherMaxSteps
    /\ timeSmoother' = RateReset(timeSmoother)
    /\ timeH' = [TimeHistory0 EXCEPT !.n = timeH.n]
    /\ UNCHANGED notTime

NextTime ==
    \/ \E context \in SmootherContexts : TimeSmootherSetContext(context)
    \/ \E newTime \in TimeTimes : TimeSmootherSetTime(newTime)
    \/ \E value \in SmootherValues : TimeSmootherSetTargetValue(value)
    \/ TimeSmootherProcess
    \/ \E value \in SmootherValues : TimeSmootherProcessValue(value)
    \/ TimeSmootherReset

InitTime == dut = "time" /\ Constructed

SpecTime == InitTime /\ [][NextTime]_vars

\* time / T of the smoother, the length of a transition in samples
TimeSamples == FDiv(timeSmoother.time, timeSmoother.c.T)

\* C19 as stated: with time > 0 and time/T whole, k process steps after the
\* target was set to v the current value is v when k = time/T and is not yet v
\* when k < time/T, whatever the distance and for both overloads: process()
\* after setTargetValue(v), and process(v) on every step.
C19_ReachedAfterTimeOverT ==
    (/\ timeH.mode # "none"
     /\ FLt(I(0), timeSmoother.time)
     /\ TimeSamples[2] = 1) =>
        /\ timeH.k = TimeSamples[1] => timeSmoother.currentValue = timeH.v
        /\ (timeH.k < TimeSamples[1] /\ timeH.from # timeH.v) =>
                timeSmoother.currentValue # timeH.v
-----------------------------------------------------------------------------
(* The history buffer of the FIR filter *)

\* the two copies of the history, at offsets i and i + N, hold the same values
Mirrored(f) ==
    LET N == Len(f.coefficients)
    IN  /\ Len(f.buffer) = 2 * N
        /\ \A i \in 1..N : f.buffer[i] = f.buffer[i + N]

\* C23: on a filter given setCoefficients with N >= 1 taps and then any process
\* and reset calls, buffer[i] = buffer[i + N] for every i in [0, N) in every
\* state.
C23_CopiesMirrored ==
    (dut = "fir" /\ firH.sets = 1) => Mirrored(fir)

\* four taps, five samples in: the ring index has wrapped to 1, the newest
\* sample 1 sits at offsets 0 and 4, the one before at offsets 3 and 7
C23_Witness ==
    /\ dut = "fir" /\ firH.sets = 1 /\ firH.n = 5 /\ Len(fir.coefficients) = 4
    /\ fir.circularBufferState = 1
    /\ firH.xs = <<I(0), I(0), I(0), I(1), I(1)>>
    /\ fir.buffer = <<I(1), I(0), I(0), I(1), I(1), I(0), I(0), I(1)>>

\* C27 as stated: after any sequence of setCoefficients (each with at least one
\* tap), reset and process calls, circularBufferState is in [0, N) for the
\* current tap count N, and every store and load of process lies inside the
\* 2N-element buffer.
C27_RingIndexInRange ==
    (dut = "fir" /\ Len(fir.coefficients) >= 1) =>
        /\ fir.circularBufferState >= 0
        /\ fir.circularBufferState < Len(fir.coefficients)
        /\ Len(fir.buffer) = 2 * Len(fir.coefficients)
        /\ FirInBounds(fir)
        /\ ~firH.oob
-----------------------------------------------------------------------------
(* The coefficients and the outputs of the state-variable filter *)

\* C24: once setCutoffFrequency, setResonance or setContext has been called,
\* g1 = 2R + G and d = 1/(1 + g1 G) hold in every state, process calls and
\* reset included; d is stated by its product with 1 + g1 G.
C24_CoefficientsConsistent ==
    svfH.updated =>
        /\ svf.g1 = FAdd(FAdd(svf.R, svf.R), svf.G)
        /\ IsFinite(svf.d)
        /\ FMul(svf.d, FAdd(I(1), FMul(svf.G, FAdd(FAdd(svf.R, svf.R), svf.G)))) = I(1)

\* a filter with resonance 1/2 (R = 11/20) and a configured G, after a process
\* call and a reset
C24_Witness ==
    /\ dut = "svf" /\ svfH.updated /\ svfH.calls >= 1 /\ svfH.n = 0
    /\ svf.resonance = Q(1, 2) /\ svf.R = Q(11, 20)
    /\ InUnit(svf.G)
    /\ svf.g1 = FAdd(Q(11, 10), svf.G)
    /\ svf.d # I(0) /\ svf.d # I(1)

\* C29: after a process call with input x on a filter whose setters have run,
\* the stored outputs satisfy hp + 2 R bp + lp = x, and lastHighPass,
\* lastBandPass and lastLowPass give the three outputs of that one pass, the
\* integrators s1 and s2 being where the pass left them.
C29_OutputsSumToInput ==
    (svfH.updated /\ svfH.n > 0 /\ ~svfH.touched) =>
        LET pass == SvfSample(svf, svfH.pre, svfH.x)
        IN  /\ FAdd(FAdd(lastHighPass(svf),
                         FMul(FMul(I(2), svf.R), lastBandPass(svf))),
                    lastLowPass(svf)) = svfH.x
            /\ lastHighPass(svf) = pass.hp
            /\ lastBandPass(svf) = pass.bp
            /\ lastLowPass(svf) = pass.lp
            /\ svf.s1 = pass.s1 /\ svf.s2 = pass.s2

\* the second call of a run, from integrators that are not at rest, with input
\* 1, resonance 1/2 and three different outputs
C29_Witness ==
    /\ dut = "svf" /\ svfH.updated /\ svfH.n = 2 /\ ~svfH.touched
    /\ svfH.x = I(1) /\ svfH.pre.s1 # I(0) /\ svfH.pre.s2 # I(0)
    /\ svf.R = Q(11, 20) /\ InUnit(svf.G)
    /\ svf.hp # svf.bp /\ svf.bp # svf.lp /\ svf.hp # I(0)

\* C30 as stated: right after reset() the last-output accessors return 0:
\* last() of Naive::LowPass1, TPT::LowPass1 and Biquad, and lastHighPass,
\* lastBandPass, lastLowPass of the state-variable filter. No setter changes
\* an output, so the statement covers every state with no process call since
\* the reset.
C30_LastIsZeroAfterReset ==
    /\ opH.n = 0 => NaiveLast(naive) = Zero /\ TptLast(tptlp) = Zero
    /\ bankH.n = 0 => \A t \in Topologies : BiquadLast(bank[t]) = Zero
    /\ svfH.n = 0 =>
        /\ lastHighPass(svf) = Zero
        /\ lastBandPass(svf) = Zero
        /\ lastLowPass(svf) = Zero
-----------------------------------------------------------------------------
(* Divisions in WindowedSincLowpass *)

\* C25 as stated: for every odd kernel length N >= 1 no division of
\* WindowedSincLowpass is 0/0 (the centre sinc is special-cased, the window
\* position n/(N-1) and the normalising sum have nonzero divisors), so no tap
\* of the returned kernel is NaN.
C25_NoTapIsNaN ==
    (kernel.done /\ ~kernel.thrown /\ Len(kernel.taps) % 2 = 1) =>
        \A i \in 1..Len(kernel.taps) : ~IsNaN(kernel.taps[i])
-----------------------------------------------------------------------------
(* Two biquads per topology whose coefficients differ in a0 only *)

\* process calls between two resets of the twins
TwinsMaxSteps == 3

\* the coefficient sets of the first twin, and the a0 given to the second
TwinsCoefSets ==
    {[b0 |-> I(2), b1 |-> I(-1), b2 |-> I(1), a0 |-> I(1), a1 |-> Q(1, 2), a2 |-> Q(1, 4)],
     [b0 |-> I(1), b1 |-> I(1), b2 |-> Q(1, 2), a0 |-> I(1), a1 |-> I(-1), a2 |-> Q(1, 2)]}
TwinsOtherA0 == {I(0), I(2)}

TwinsSetCoefficients(c, a0) ==
    /\ dut = "twins"
    /\ twins' = [t \in Topologies |->
                   [one |-> BiquadSetCoefficients(twins[t].one, c),
                    other |-> BiquadSetCoefficients(twins[t].other,
                                                    [c EXCEPT !.a0 = a0])]]
    /\ UNCHANGED twinsH
    /\ UNCHANGED notTwins

TwinsProcess(x) ==
    /\ dut = "twins"
    /\ twinsH.n < TwinsMaxSteps
    /\ twins' = [t \in Topologies |->
                   [one |-> BiquadProcess(twins[t].one, x),
                    other |-> BiquadProcess(twins[t].other, x)]]
    /\ twinsH' = [n |-> twinsH.n + 1]
    /\ UNCHANGED notTwins

TwinsReset ==
    /\ dut = "twins"
    /\ twins' = [t \in Topologies |->
                   [one |-> BiquadReset(twins[t].one),
                    other |-> BiquadReset(twins[t].other)]]
    /\ twinsH' = [n |-> 0]
    /\ UNCHANGED notTwins

NextTwins ==
    \/ \E c \in TwinsCoefSets, a0 \in TwinsOtherA0 : TwinsSetCoefficients(c, a0)
    \/ \E x \in Samples \cup {Zero} : TwinsProcess(x)
    \/ TwinsReset

InitTwins == dut = "twins" /\ Constructed

SpecTwins == InitTwins /\ [][NextTwins]_vars

\* C28: process reads a0 in no topology: two biquads of one topology whose
\* coefficients differ in a0 only, started from reset and fed the same input,
\* return the same output and hold the same registers after every sample.
C28_A0IsNotRead ==
    \A t \in Topologies :
        LET p == twins[t].one
            q == twins[t].other
        IN  /\ \A k \in {"b0", "b1", "b2", "a1", "a2"} : p.coeffs[k] = q.coeffs[k]
            /\ BiquadLast(p) = BiquadLast(q)
            /\ p.st = q.st

\* three samples through twins with a0 = 1 and a0 = 0: the outputs are not
\* zero and both delays of the DF2 twins are in use
C28_Witness ==
    /\ dut = "twins" /\ twinsH.n = 3
    /\ \A t \in Topologies :
         /\ twins[t].one.coeffs.a0 = I(1) /\ twins[t].other.coeffs.a0 = I(0)
         /\ twins[t].one.coeffs.a2 # Zero
         /\ BiquadLast(twins[t].other) # Zero
    /\ twins["DirectForm2"].other.st.v2 # Zero
-----------------------------------------------------------------------------
(* The constant-rate smoother arriving at its target *)

\* the least whole number of steps of size delta that cover the distance
\* between from and target
StepsToTarget(from, target, delta) ==
    LET q == FDiv(abs(FSub(target, from)), delta)
    IN  CeilDiv(q[1], q[2])

-----------------------------------------------------------------------------
(* LinearCongruentialGenerator bench                                        *)

LcgMaxSteps == 32

\* seeds on both sides of the range in which seed * a + c stays inside int,
\* together with INT_MAX and INT_MIN
LcgSeeds ==
    {Word(0), Word(1), Word(681), Word(682), Word(12345), Word(IntMax),
     WordNeg(1), WordNeg(1899), WordNeg(1900), <<Half \div 2, 0>>}

LcgSetSeed(newSeed) ==
    /\ dut = "lcg"
    /\ ~lcg.trapped
    /\ lcg' = setSeed(lcg, newSeed)
    /\ lcgH' = [n |-> 0, seed0 |-> newSeed]
    /\ UNCHANGED notLcg

\* seed * a + c on int: when the exact result leaves the range of int the
\* behaviour is undefined; a build either wraps around or traps
LcgGetInt ==
    /\ dut = "lcg"
    /\ ~lcg.trapped
    /\ lcgH.n < LcgMaxSteps
    /\ \/ /\ lcg' = getInt(lcg)
          /\ lcgH' = [lcgH EXCEPT !.n = @ + 1]
       \/ /\ SignedOverflow(lcg)
          /\ lcg' = [lcg EXCEPT !.trapped = TRUE]
          /\ lcgH' = lcgH
    /\ UNCHANGED notLcg

NextLcg ==
    \/ \E s \in LcgSeeds : LcgSetSeed(s)
    \/ LcgGetInt

InitLcg == dut = "lcg" /\ Constructed

SpecLcg == InitLcg /\ [][NextLcg]_vars

\* the map s |-> s * m[1] + m[2] modulo 2^32
Apply(m, s) == AddWord(MulWord(s, m[1]), m[2])

\* -x modulo 2^32
NegWord(x) == AddWord(<<(Half - 1) - x[1], (Half - 1) - x[2]>>, Word(1))

\* getInt as a map <<multiplier, increment>>, read off its values at 0 and 1
StepMap(g) ==
    LET f0 == getInt(setSeed(g, Word(0))).seed
        f1 == getInt(setSeed(g, Word(1))).seed
    IN  <<AddWord(f1, NegWord(f0)), f0>>

\* a map applied twice
Twice(m) ==
    LET A == m[1]
        C == m[2]
    IN  <<MulWord(A, A), AddWord(MulWord(C, A), C)>>

\* 2^k calls of getInt as one map; the map of 2^(k-1) calls is evaluated
\* (compared with the empty tuple, which it never is) before it is squared
RECURSIVE Jump(_, _)
Jump(g, k) ==
    IF k = 0 THEN StepMap(g)
    ELSE LET m == Jump(g, k - 1)
         IN  IF m # <<>> THEN Twice(m) ELSE m

RECURSIVE Pow2(_)
Pow2(k) == IF k = 0 THEN 1 ELSE 2 * Pow2(k - 1)

\* C21: in wrap-around arithmetic getInt has period exactly 2^32 from every
\* seed. 2^32 calls are the identity map and 2^31 calls are a shift by a
\* non-zero amount, so the orbit of every seed, whose length divides 2^32, has
\* all 2^32 values; in the runs made the seed comes back to neither after 2^31
\* calls nor after any of the calls made so far, and the maps of 2^k calls
\* agree with the calls made one at a time.
C21_FullPeriod ==
    (dut = "lcg" /\ ~lcg.trapped) =>
        /\ Jump(lcg, 32) = <<Word(1), Word(0)>>
        /\ Jump(lcg, 31)[1] = Word(1)
        /\ Jump(lcg, 31)[2] # Word(0)
        /\ Apply(Jump(lcg, 32), lcg.seed) = lcg.seed
        /\ Apply(Jump(lcg, 31), lcg.seed) # lcg.seed
        /\ lcgH.n > 0 => lcg.seed # lcgH.seed0
        /\ \A k \in 0..5 :
             lcgH.n = Pow2(k) => lcg.seed = Apply(Jump(lcg, k), lcgH.seed0)

\* 32 calls made in wrap-around arithmetic from the seed INT_MAX, the first
\* of which already leaves the range of int
C21_Witness ==
    /\ dut = "lcg" /\ ~lcg.trapped
    /\ lcgH.seed0 = Word(IntMax) /\ lcgH.n = 32
    /\ SignedOverflow(setSeed(lcg, lcgH.seed0))
-----------------------------------------------------------------------------
(* Math::foldArgument bench                                                 *)

\* arguments k / FoldDen for k in -FoldMaxNum .. FoldMaxNum: three periods on
\* either side of zero
FoldDen == 20
FoldMaxNum == 60
FoldInputs == {Q(k, FoldDen) : k \in (-FoldMaxNum)..FoldMaxNum}

\* one call per run: the function has no state of its own
FoldArgument(x) ==
    /\ dut = "fold"
    /\ ~fold.done
    /\ fold' = [done |-> TRUE, x |-> x, y |-> foldArgument(x)]
    /\ UNCHANGED notFold

NextFold == \E x \in FoldInputs : FoldArgument(x)

InitFold == dut = "fold" /\ Constructed

SpecFold == InitFold /\ [][NextFold]_vars

\* C22: for every argument, positive or negative, foldArgument returns a value
\* in [-0.5, 0.5].
C22_FoldedIntoRange ==
    (dut = "fold" /\ fold.done) =>
        /\ FLe(Q(-1, 2), fold.y)
        /\ FLe(fold.y, Q(1, 2))
=============================================================================
